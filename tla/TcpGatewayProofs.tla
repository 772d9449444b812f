------------------------- MODULE TcpGatewayProofs -------------------------
(***************************************************************************)
(* Theorems about TcpGateway, for any set of keys and any bounds.          *)
(***************************************************************************)
EXTENDS TcpGateway, TLAPS

-----------------------------------------------------------------------------
(* Types: of segments, of the two queues, then of every step.              *)

UpTypes == toGw \in [Keys -> Seq(UpSegment)]
DownTypes == toClient \in [Keys -> Seq(DownSegment)]

LEMMA AttemptsAreNumbers == Attempts \subseteq Nat /\ 0 \in Initial /\ Foreign \in SeqNo
  BY GatewayBounds DEF Attempts, Initial, SeqNo, Foreign

LEMMA UpIsSegment ==
    ASSUME NEW f \in {"SYN", "DATA", "FIN", "RST", "ACK"},
           NEW seq \in SeqNo, NEW ack \in SeqNo
    PROVE  Up(f, seq, ack) \in UpSegment
  BY DEF Up, UpSegment

LEMMA DownIsSegment ==
    ASSUME NEW f \in {"SYNACK", "RSTACK", "RST", "DATA", "FIN", "ACK"},
           NEW seq \in SeqNo, NEW ack \in SeqNo
    PROVE  Down(f, seq, ack) \in DownSegment
  BY DEF Down, DownSegment

LEMMA IncomingTypes ==
    ASSUME UpTypes, NEW k \in Keys, NEW f, Incoming(k, f)
    PROVE  /\ Head(toGw[k]) \in UpSegment
           /\ Head(toGw[k]).seq \in SeqNo /\ Head(toGw[k]).ack \in SeqNo
           /\ Head(toGw[k]).seq[1] \in Initial
           /\ UpTypes'
  <1>1. toGw[k] \in Seq(UpSegment) /\ toGw[k] # <<>>
    BY DEF Incoming, UpTypes
  <1>2. Head(toGw[k]) \in UpSegment /\ Tail(toGw[k]) \in Seq(UpSegment)
    BY <1>1
  <1>3. Head(toGw[k]).seq \in SeqNo /\ Head(toGw[k]).ack \in SeqNo
    BY <1>2 DEF UpSegment
  <1>4. Head(toGw[k]).seq[1] \in Initial
    BY <1>3 DEF SeqNo
  <1> QED
    BY <1>2, <1>3, <1>4 DEF Incoming, UpTypes

LEMMA InjectTypes ==
    ASSUME DownTypes, NEW k \in Keys, NEW s \in DownSegment, Inject(k, s)
    PROVE  DownTypes'
  <1>1. Append(toClient[k], s) \in Seq(DownSegment)
    BY DEF DownTypes
  <1> QED
    BY <1>1 DEF Inject, DownTypes

LEMMA SendTypes ==
    ASSUME UpTypes, NEW k \in Keys, NEW s \in UpSegment, Send(k, s)
    PROVE  UpTypes'
  <1>1. Append(toGw[k], s) \in Seq(UpSegment)
    BY DEF UpTypes
  <1> QED
    BY <1>1 DEF Send, UpTypes

LEMMA AcknowledgeTypes ==
    ASSUME UpTypes, NEW k \in Keys, NEW rcvd \in SeqNo,
           client[k].isn \in Initial, client[k].snd \in Nat, Acknowledge(k, rcvd)
    PROVE  UpTypes'
  <1> DEFINE q == toGw[k]
             a == Up("ACK", <<client[k].isn, client[k].snd>>, rcvd)
  <1>1. q \in Seq(UpSegment)
    BY DEF UpTypes
  <1>2. a \in UpSegment
    BY UpIsSegment DEF SeqNo
  <1>3. Append(q, a) \in Seq(UpSegment)
    BY <1>1, <1>2
  <1>4. q # <<>> => [q EXCEPT ![Len(q)] = a] \in Seq(UpSegment)
    BY <1>1, <1>2
  <1> HIDE DEF a
  <1>5. toGw' = [toGw EXCEPT ![k] = IF q # <<>> /\ q[Len(q)].f = "ACK"
                                    THEN [q EXCEPT ![Len(q)] = a] ELSE Append(q, a)]
    BY DEF Acknowledge, a
  <1> QED
    BY <1>3, <1>4, <1>5 DEF UpTypes

LEMMA ArrivingTypes ==
    ASSUME DownTypes, NEW k \in Keys, NEW s, Arriving(k, s)
    PROVE  /\ s \in DownSegment
           /\ s.seq \in SeqNo /\ s.ack \in SeqNo
           /\ s.seq[1] \in Initial /\ s.ack[2] \in Nat /\ s.unit \in Nat
           /\ DownTypes'
  <1>1. toClient[k] \in Seq(DownSegment) /\ toClient[k] # <<>>
    BY DEF Arriving, DownTypes
  <1>2. s \in DownSegment /\ Tail(toClient[k]) \in Seq(DownSegment)
    BY <1>1 DEF Arriving
  <1>3. s.seq \in SeqNo /\ s.ack \in SeqNo /\ s.unit \in Nat
    BY <1>2 DEF DownSegment
  <1>4. s.seq[1] \in Initial /\ s.ack[2] \in Nat
    BY <1>3 DEF SeqNo
  <1> QED
    BY <1>2, <1>3, <1>4 DEF Arriving, DownTypes

ConnTypes == conn \in [Attempts -> Attempt]
HostTypes == host \in [Attempts -> HostEnd]
ClientTypes == client \in [Keys -> ClientEnd]

TableTypes ==
    /\ dest \in [Keys -> {"gated", "host", "web"}]
    /\ pending \subseteq Keys
    /\ tcp \in [Keys -> Attempts \cup {NoConn}]
    /\ ConnTypes
    /\ HostTypes
    /\ faults \in 0..MaxFaults

LEMMA TypesSplit ==
    GatewayTypeOK <=> TableTypes /\ ClientTypes /\ UpTypes /\ DownTypes
  BY DEF GatewayTypeOK, TableTypes, ConnTypes, HostTypes, ClientTypes, UpTypes, DownTypes

LEMMA ConnUpdate ==
    ASSUME ConnTypes, NEW c \in Attempts, NEW r \in Attempt, conn' = [conn EXCEPT ![c] = r]
    PROVE  ConnTypes'
  BY DEF ConnTypes

LEMMA HostUpdate ==
    ASSUME HostTypes, NEW c \in Attempts, NEW r \in HostEnd, host' = [host EXCEPT ![c] = r]
    PROVE  HostTypes'
  BY DEF HostTypes

LEMMA ClientUpdate ==
    ASSUME ClientTypes, NEW k \in Keys, NEW r \in ClientEnd,
           client' = [client EXCEPT ![k] = r]
    PROVE  ClientTypes'
  BY DEF ClientTypes

LEMMA InitTypes == Init => GatewayTypeOK
  <1> SUFFICES ASSUME Init PROVE GatewayTypeOK
    OBVIOUS
  <1>1. AnyKey \in Keys
    BY SomeKey DEF AnyKey
  <1>2. TableTypes
    <2>1. ConnTypes
      BY <1>1, AttemptsAreNumbers DEF Init, ConnTypes, Attempt, Phase
    <2>2. HostTypes
      BY GatewayBounds DEF Init, HostTypes, HostEnd
    <2> QED
      BY <2>1, <2>2, GatewayBounds DEF Init, TableTypes
  <1>3. ClientTypes
    BY GatewayBounds, AttemptsAreNumbers
       DEF Init, ClientTypes, ClientEnd, ClientState, NewClient
  <1>4. UpTypes /\ DownTypes
    BY DEF Init, UpTypes, DownTypes
  <1> QED
    BY <1>2, <1>3, <1>4, TypesSplit

\* What the gateway's segments are made of.
LEMMA GatewaySegments ==
    ASSUME TableTypes, NEW c \in Attempts
    PROVE  /\ conn[c].key \in Keys
           /\ conn[c].cnext \in Nat /\ conn[c].snext \in Nat
           /\ SynAck(c) \in DownSegment
           /\ \A isn \in Initial : Refusal(isn) \in DownSegment
           /\ Refusal(conn[c].isn) \in DownSegment
           /\ \A n \in Nat : Ack(c, n) \in DownSegment
           /\ \A n \in Nat : <<c, n>> \in SeqNo /\ <<conn[c].isn, n>> \in SeqNo
  <1>1. /\ conn[c].key \in Keys /\ conn[c].isn \in Initial
        /\ conn[c].cnext \in Nat /\ conn[c].snext \in Nat
    BY DEF TableTypes, ConnTypes, Attempt
  <1>2. \A n \in Nat : <<c, n>> \in SeqNo /\ <<conn[c].isn, n>> \in SeqNo
    BY <1>1 DEF SeqNo, Initial
  <1>3. SynAck(c) \in DownSegment
    BY <1>2, DownIsSegment DEF SynAck
  <1>4. \A isn \in Initial : Refusal(isn) \in DownSegment
    BY AttemptsAreNumbers, DownIsSegment DEF Refusal, SeqNo
  <1>5. \A n \in Nat : Ack(c, n) \in DownSegment
    BY <1>1, <1>2, DownIsSegment DEF Ack
  <1> QED
    BY <1>1, <1>2, <1>3, <1>4, <1>5

\* The gateway reads a packet: one step per case of _handle_tcp and on_data.
LEMMA HandleTypes ==
    ASSUME TableTypes, ClientTypes, UpTypes, DownTypes,
           NEW k \in Keys, HandleSyn(k) \/ HandleOther(k)
    PROVE  TableTypes' /\ ClientTypes' /\ UpTypes' /\ DownTypes'
  <1>1. CASE SynWhilePending(k) \/ StrayReset(k) \/ OnAck(k)
    BY <1>1, IncomingTypes DEF SynWhilePending, StrayReset, OnAck, TableTypes, ConnTypes,
       HostTypes, ClientTypes, DownTypes
  <1>2. CASE SynAgain(k)
    <2>1. tcp[k] \in Attempts
      BY <1>2 DEF SynAgain, TableTypes
    <2>2. UpTypes' /\ DownTypes'
      BY <1>2, <2>1, GatewaySegments, InjectTypes, IncomingTypes DEF SynAgain
    <2> QED
      BY <1>2, <2>2 DEF SynAgain, TableTypes, ConnTypes, HostTypes, ClientTypes
  <1>3. CASE SynToWeb(k)
    <2>1. Head(toGw[k]).seq[1] \in Initial /\ UpTypes'
      BY <1>3, IncomingTypes DEF SynToWeb
    <2>2. Refusal(Head(toGw[k]).seq[1]) \in DownSegment
      BY <2>1, AttemptsAreNumbers, DownIsSegment DEF Refusal, SeqNo
    <2>3. DownTypes'
      BY <1>3, <2>2, InjectTypes DEF SynToWeb
    <2> QED
      BY <1>3, <2>1, <2>3 DEF SynToWeb, TableTypes, ConnTypes, HostTypes, ClientTypes
  <1>4. ASSUME NEW c \in Attempts, SynNew(k, c)
        PROVE  TableTypes' /\ ClientTypes' /\ UpTypes' /\ DownTypes'
    <2>1. Head(toGw[k]).seq[1] \in Initial /\ UpTypes'
      BY <1>4, IncomingTypes DEF SynNew
    <2>2. ConnTypes'
      BY <1>4, <2>1 DEF SynNew, TableTypes, ConnTypes, Attempt, Phase
    <2> QED
      BY <1>4, <2>1, <2>2 DEF SynNew, TableTypes, HostTypes, ClientTypes, DownTypes
  <1>5. ASSUME NEW f \in {"DATA", "FIN", "ACK"}, Stray(k, f)
        PROVE  TableTypes' /\ ClientTypes' /\ UpTypes' /\ DownTypes'
    <2>1. Head(toGw[k]).ack \in SeqNo /\ UpTypes'
      BY <1>5, IncomingTypes DEF Stray
    <2>2. DownTypes'
      BY <1>5, <2>1, DownIsSegment, AttemptsAreNumbers, InjectTypes DEF Stray
    <2> QED
      BY <1>5, <2>1, <2>2 DEF Stray, TableTypes, ConnTypes, HostTypes, ClientTypes
  <1>6. ASSUME NEW c \in Attempts, OnData(k, c)
        PROVE  TableTypes' /\ ClientTypes' /\ UpTypes' /\ DownTypes'
    <2>1. Head(toGw[k]).seq \in SeqNo /\ UpTypes'
      BY <1>6, IncomingTypes DEF OnData
    <2>2. Append(host[c].got, Head(toGw[k]).seq) \in Seq(SeqNo)
      BY <2>1 DEF TableTypes, HostTypes, HostEnd
    <2>3. HostTypes'
      <3>1. \E g \in Seq(SeqNo) : host' = [host EXCEPT ![c] = [host[c] EXCEPT !.got = g]]
        <4>1. host[c].got \in Seq(SeqNo)
          BY DEF TableTypes, HostTypes, HostEnd
        <4>2. host' = [host EXCEPT ![c] = [host[c] EXCEPT
                  !.got = IF host[c].shut THEN host[c].got
                          ELSE Append(host[c].got, Head(toGw[k]).seq)]]
          BY <1>6 DEF OnData
        <4> QED
          BY <2>2, <4>1, <4>2
      <3>2. ASSUME NEW g \in Seq(SeqNo) PROVE [host[c] EXCEPT !.got = g] \in HostEnd
        BY DEF TableTypes, HostTypes, HostEnd
      <3> QED
        BY <3>1, <3>2, HostUpdate DEF TableTypes
    <2>4. ConnTypes'
      <3>1. conn' = [conn EXCEPT ![c] = [conn[c] EXCEPT !.cnext = @ + 1]]
        BY <1>6 DEF OnData
      <3>2. [conn[c] EXCEPT !.cnext = @ + 1] \in Attempt
        BY DEF TableTypes, ConnTypes, Attempt
      <3> QED
        BY <3>1, <3>2, ConnUpdate DEF TableTypes
    <2>5. DownTypes'
      BY <1>6, GatewaySegments, InjectTypes DEF OnData
    <2> QED
      BY <1>6, <2>1, <2>3, <2>5, <2>4 DEF OnData, TableTypes, ClientTypes
  <1>7. ASSUME NEW c \in Attempts, OnFin(k, c)
        PROVE  TableTypes' /\ ClientTypes' /\ UpTypes' /\ DownTypes'
    <2>1. UpTypes'
      BY <1>7, IncomingTypes DEF OnFin
    <2>2. ConnTypes'
      <3>1. conn' = [conn EXCEPT ![c] = [conn[c] EXCEPT !.cnext = @ + 1]]
        BY <1>7 DEF OnFin
      <3>2. [conn[c] EXCEPT !.cnext = @ + 1] \in Attempt
        BY DEF TableTypes, ConnTypes, Attempt
      <3> QED
        BY <3>1, <3>2, ConnUpdate DEF TableTypes
    <2>3. HostTypes'
      BY <1>7 DEF OnFin, TableTypes, HostTypes, HostEnd
    <2>4. DownTypes'
      BY <1>7, GatewaySegments, InjectTypes DEF OnFin
    <2> QED
      BY <1>7, <2>1, <2>2, <2>4, <2>3 DEF OnFin, TableTypes, ClientTypes
  <1>8. ASSUME NEW c \in Attempts, OnReset(k, c)
        PROVE  TableTypes' /\ ClientTypes' /\ UpTypes' /\ DownTypes'
    <2>1. UpTypes'
      BY <1>8, IncomingTypes DEF OnReset
    <2>2. ConnTypes'
      BY <1>8 DEF OnReset, TableTypes, ConnTypes, Attempt, Phase
    <2>3. HostTypes'
      BY <1>8 DEF OnReset, TableTypes, HostTypes, HostEnd
    <2> QED
      BY <1>8, <2>1, <2>2, <2>3 DEF OnReset, TableTypes, ClientTypes, DownTypes
  <1> QED
    BY <1>1, <1>2, <1>3, <1>4, <1>5, <1>6, <1>7, <1>8 DEF HandleSyn, HandleOther

\* _connect, the relay and the host.
LEMMA AttemptTypes ==
    ASSUME TableTypes, ClientTypes, UpTypes, DownTypes, NEW c \in Attempts,
           \/ Connecting(c) \/ Relaying(c)
           \/ HostActs(c)
    PROVE  TableTypes' /\ ClientTypes' /\ UpTypes' /\ DownTypes'
  <1>1. CASE GateAllows(c)
    <2>1. ConnTypes'
      BY <1>1 DEF GateAllows, TableTypes, ConnTypes, Attempt, Phase
    <2> QED
      BY <1>1, <2>1 DEF GateAllows, TableTypes, HostTypes, ClientTypes, UpTypes, DownTypes
  <1>2. CASE GateRefuses(c) \/ OpenFails(c)
    <2>1. Refuse(c)
      BY <1>2 DEF GateRefuses, OpenFails
    <2>2. DownTypes'
      BY <2>1, GatewaySegments, InjectTypes DEF Refuse
    <2>3. ConnTypes'
      BY <2>1 DEF Refuse, TableTypes, ConnTypes, Attempt, Phase
    <2> QED
      BY <2>1, <2>2, <2>3 DEF Refuse, TableTypes, HostTypes, ClientTypes, UpTypes
  <1>3. CASE Opened(c)
    <2>1. DownTypes'
      BY <1>3, GatewaySegments, InjectTypes DEF Opened
    <2>2. ConnTypes'
      <3> DEFINE r == [conn[c] EXCEPT !.at = "up", !.cnext = 1, !.snext = 1]
      <3>1. conn' = [conn EXCEPT ![c] = r]
        BY <1>3 DEF Opened
      <3>2. r \in Attempt
        BY DEF TableTypes, ConnTypes, Attempt, Phase
      <3> QED
        BY <3>1, <3>2, ConnUpdate DEF TableTypes
    <2> QED
      BY <1>3, <2>1, <2>2 DEF Opened, TableTypes, HostTypes, ClientTypes, UpTypes
  <1>4. CASE Relay(c)
    <2> DEFINE s == [f |-> "DATA", seq |-> <<c, conn[c].snext>>,
                     ack |-> <<conn[c].isn, conn[c].cnext>>, unit |-> Relayed(c) + 1]
    <2>1. conn[c].snext \in Nat /\ Relayed(c) + 1 \in Nat
      BY GatewaySegments DEF Relayed
    <2>2. s \in DownSegment
      BY <2>1, GatewaySegments DEF DownSegment
    <2>3. Inject(conn[c].key, s)
      BY <1>4 DEF Relay
    <2>4. DownTypes'
      BY <2>2, <2>3, GatewaySegments, InjectTypes
    <2>5. ConnTypes'
      BY <1>4, <2>1 DEF Relay, TableTypes, ConnTypes, Attempt
    <2> QED
      BY <1>4, <2>4, <2>5 DEF Relay, TableTypes, HostTypes, ClientTypes, UpTypes
  <1>5. CASE RelayEnds(c)
    <2>1. Down("FIN", <<c, conn[c].snext>>, <<conn[c].isn, conn[c].cnext>>) \in DownSegment
      BY GatewaySegments, DownIsSegment
    <2>2. DownTypes'
      BY <1>5, <2>1, GatewaySegments, InjectTypes DEF RelayEnds
    <2>3. ConnTypes'
      BY <1>5 DEF RelayEnds, TableTypes, ConnTypes, Attempt, Phase
    <2> QED
      BY <1>5, <2>2, <2>3 DEF RelayEnds, TableTypes, HostTypes, ClientTypes, UpTypes
  <1>6. CASE HostActs(c)
    <2>1. HostTypes'
      <3>1. host[c] \in HostEnd
        BY DEF TableTypes, HostTypes
      <3>2. CASE HostSends(c)
        <4>1. host' = [host EXCEPT ![c] = [host[c] EXCEPT !.sent = @ + 1]]
          BY <3>2 DEF HostSends
        <4>2. [host[c] EXCEPT !.sent = @ + 1] \in HostEnd
          BY <3>1, <3>2, GatewayBounds, SMTT(30) DEF HostSends, HostEnd
        <4> QED
          BY <4>1, <4>2, HostUpdate DEF TableTypes
      <3>3. CASE HostCloses(c)
        BY <3>1, <3>3 DEF HostCloses, TableTypes, HostTypes, HostEnd
      <3>4. CASE HostBreaks(c)
        <4>1. host' = [host EXCEPT ![c] = [host[c] EXCEPT !.broken = TRUE, !.stalled = FALSE]]
          BY <3>4 DEF HostBreaks
        <4>2. [host[c] EXCEPT !.broken = TRUE, !.stalled = FALSE] \in HostEnd
          BY <3>1 DEF HostEnd
        <4> QED
          BY <4>1, <4>2, HostUpdate DEF TableTypes
      <3>5. CASE HostStalls(c) \/ HostTakes(c)
        <4>1. PICK b \in BOOLEAN : host' = [host EXCEPT ![c] = [host[c] EXCEPT !.stalled = b]]
          BY <3>5 DEF HostStalls, HostTakes
        <4>2. [host[c] EXCEPT !.stalled = b] \in HostEnd
          BY <3>1 DEF HostEnd
        <4> QED
          BY <4>1, <4>2, HostUpdate DEF TableTypes
      <3> QED
        BY <1>6, <3>2, <3>3, <3>4, <3>5 DEF HostActs
    <2> QED
      BY <1>6, <2>1 DEF HostActs, HostSends, HostCloses, HostBreaks, HostStalls, HostTakes,
         TableTypes, ConnTypes,
         ClientTypes, UpTypes, DownTypes
  <1> QED
    BY <1>1, <1>2, <1>3, <1>4, <1>5, <1>6 DEF Connecting, Relaying

\* The programs of the sandbox.
LEMMA ProgramTypes ==
    ASSUME TableTypes, ClientTypes, UpTypes, DownTypes, NEW k \in Keys,
           Connect(k) \/ GiveUp(k) \/ Write(k) \/ ShutDown(k) \/ Abort(k)
    PROVE  TableTypes' /\ ClientTypes' /\ UpTypes' /\ DownTypes'
  <1>1. /\ client[k].isn \in 0..MaxUses /\ client[k].snd \in Nat
        /\ AckOf(k) \in SeqNo /\ <<client[k].isn, client[k].snd>> \in SeqNo
    BY DEF ClientTypes, ClientEnd, AckOf, SeqNo, Initial
  <1>2. CASE Connect(k)
    <2>1. client[k].isn + 1 \in 0..MaxUses
      BY <1>1, <1>2, GatewayBounds DEF Connect
    <2>2. <<client[k].isn + 1, 0>> \in SeqNo
      BY <2>1 DEF SeqNo, Initial
    <2>3. UpTypes'
      BY <1>2, <2>2, AttemptsAreNumbers, UpIsSegment, SendTypes DEF Connect
    <2>4. NewClient("synsent", client[k].isn + 1) \in ClientEnd
      BY <2>1, AttemptsAreNumbers DEF NewClient, ClientEnd, ClientState
    <2>5. ClientTypes'
      BY <1>2, <2>4 DEF Connect, ClientTypes
    <2> QED
      BY <1>2, <2>3, <2>5 DEF Connect, TableTypes, ConnTypes, HostTypes, DownTypes
  <1>3. CASE GiveUp(k)
    <2>1. ClientTypes'
      BY <1>3 DEF GiveUp, ClientTypes, ClientEnd, ClientState
    <2> QED
      BY <1>3, <2>1 DEF GiveUp, TableTypes, ConnTypes, HostTypes, UpTypes, DownTypes
  <1>4. CASE Write(k)
    <2>1. UpTypes'
      BY <1>1, <1>4, UpIsSegment, SendTypes DEF Write
    <2>2. ClientTypes'
      <3>1. client' = [client EXCEPT ![k] = [client[k] EXCEPT !.snd = @ + 1]]
        BY <1>4 DEF Write
      <3>2. client[k] \in ClientEnd /\ client[k].snd + 1 \in Nat
        BY <1>1 DEF ClientTypes
      <3>3. ASSUME NEW n \in Nat PROVE [client[k] EXCEPT !.snd = n] \in ClientEnd
        BY <3>2 DEF ClientEnd
      <3>4. [client[k] EXCEPT !.snd = @ + 1] \in ClientEnd
        BY <3>2, <3>3
      <3> QED
        BY <3>1, <3>4, ClientUpdate
    <2> QED
      BY <1>4, <2>1, <2>2 DEF Write, TableTypes, ConnTypes, HostTypes, DownTypes
  <1>5. CASE ShutDown(k)
    <2>1. UpTypes'
      BY <1>1, <1>5, UpIsSegment, SendTypes DEF ShutDown
    <2>2. ClientTypes'
      BY <1>1, <1>5 DEF ShutDown, ClientTypes, ClientEnd
    <2> QED
      BY <1>5, <2>1, <2>2 DEF ShutDown, TableTypes, ConnTypes, HostTypes, DownTypes
  <1>6. CASE Abort(k)
    <2>1. UpTypes'
      BY <1>1, <1>6, UpIsSegment, SendTypes DEF Abort
    <2>2. ClientTypes'
      BY <1>1, <1>6 DEF Abort, ClientTypes, ClientEnd, ClientState
    <2> QED
      BY <1>6, <2>1, <2>2 DEF Abort, TableTypes, ConnTypes, HostTypes, DownTypes
  <1> QED
    BY <1>2, <1>3, <1>4, <1>5, <1>6

\* The kernel of the sandbox.
LEMMA KernelTypes ==
    ASSUME TableTypes, ClientTypes, UpTypes, DownTypes, NEW k \in Keys,
           ResendSyn(k) \/ ClientReceives(k) \/ GoesOut(k)
    PROVE  TableTypes' /\ ClientTypes' /\ UpTypes' /\ DownTypes'
  <1>1. /\ client[k].isn \in Initial /\ client[k].snd \in Nat
        /\ client[k].una \in Nat /\ client[k].rcv \in Nat
        /\ client[k].peer \in Initial /\ client[k].got \in Seq(Nat)
        /\ AckOf(k) \in SeqNo
    BY DEF ClientTypes, ClientEnd, AckOf, SeqNo, Initial
  <1>2. CASE ResendSyn(k)
    <2>1. Syn(k) \in UpSegment
      BY <1>1, AttemptsAreNumbers, UpIsSegment DEF Syn, SeqNo
    <2>2. UpTypes'
      BY <1>2, <2>1, SendTypes DEF ResendSyn
    <2> QED
      BY <1>2, <2>2 DEF ResendSyn, TableTypes, ConnTypes, HostTypes, ClientTypes, DownTypes
  <1>3. CASE GoesOut(k)
    <2>1. /\ client' = [client EXCEPT ![k] = [client[k] EXCEPT !.st = "closed"]]
          /\ UNCHANGED <<dest, pending, tcp, conn, host, toGw, toClient, faults>>
      BY <1>3 DEF GoesOut, Finished, OrphanExpires
    <2>2. [client[k] EXCEPT !.st = "closed"] \in ClientEnd
      BY DEF TableTypes, ClientTypes, ClientEnd, ClientState
    <2>3. ClientTypes'
      BY <2>1, <2>2, ClientUpdate DEF TableTypes
    <2> QED
      BY <2>1, <2>3 DEF TableTypes, ConnTypes, HostTypes, UpTypes, DownTypes
  <1>4. ASSUME NEW s, Arriving(k, s)
        PROVE  /\ DownTypes' /\ TableTypes'
               /\ s \in DownSegment /\ s.seq \in SeqNo /\ s.ack \in SeqNo
               /\ s.seq[1] \in Initial /\ s.ack[2] \in Nat /\ s.unit \in Nat
               /\ Up("RST", s.ack, Foreign) \in UpSegment
    <2>1. TableTypes'
      BY <1>4 DEF Arriving, TableTypes, ConnTypes, HostTypes
    <2>2. s.ack \in SeqNo
      BY <1>4, ArrivingTypes
    <2>3. Up("RST", s.ack, Foreign) \in UpSegment
      BY <2>2, AttemptsAreNumbers, UpIsSegment
    <2> QED
      BY <1>4, <2>1, <2>3, ArrivingTypes
  <1>5. ASSUME NEW s, Unacceptable(k, s) \/ Over(k, s) \/ Ignored(k, s)
        PROVE  ClientTypes' /\ UpTypes'
    <2>1. UNCHANGED toGw \/ Send(k, Up("RST", s.ack, Foreign))
      BY <1>5 DEF Unacceptable, Over, Ignored
    <2>2. Arriving(k, s) /\ UNCHANGED client
      BY <1>5 DEF Unacceptable, Over, Ignored
    <2> QED
      BY <1>4, <2>1, <2>2, SendTypes DEF ClientTypes, UpTypes
  <1>6. ASSUME NEW s, SynAnswered(k, s) PROVE ClientTypes' /\ UpTypes'
    <2>1. s.seq[1] \in Initial
      BY <1>4, <1>6 DEF SynAnswered
    <2>2. <<s.seq[1], 1>> \in SeqNo
      BY <2>1 DEF SeqNo
    <2>3. UpTypes'
      BY <1>1, <1>6, <2>2, AcknowledgeTypes DEF SynAnswered, UpTypes
    <2>4. CASE s.f = "SYNACK"
      <3> DEFINE r == [client[k] EXCEPT !.st = "established", !.una = 1,
                                        !.peer = s.seq[1], !.rcv = 1]
      <3>1. client' = [client EXCEPT ![k] = r]
        BY <1>6, <2>4 DEF SynAnswered
      <3>2. r \in ClientEnd
        BY <2>1 DEF ClientTypes, ClientEnd, ClientState
      <3> QED
        BY <2>3, <3>1, <3>2, ClientUpdate
    <2>5. CASE s.f = "RSTACK"
      <3>1. ClientTypes'
        BY <1>6, <2>5 DEF SynAnswered, ClientTypes, ClientEnd, ClientState
      <3> QED BY <2>3, <3>1
    <2> QED
      BY <1>6, <2>4, <2>5 DEF SynAnswered
  <1>7. ASSUME NEW s, ResetArrives(k, s) PROVE ClientTypes' /\ UpTypes'
    <2>1. UNCHANGED toGw \/ Acknowledge(k, AckOf(k))
      BY <1>7 DEF ResetArrives
    <2>2. UpTypes'
      BY <1>1, <2>1, AcknowledgeTypes DEF UpTypes
    <2>3. ClientTypes'
      <3>1. client' = client \/ client' = [client EXCEPT ![k].st = "reset"]
        BY <1>7 DEF ResetArrives
      <3>2. CASE client' = [client EXCEPT ![k].st = "reset"]
        <4>1. client[k] \in ClientEnd
          BY DEF ClientTypes
        <4>2. [client[k] EXCEPT !.st = "reset"] \in ClientEnd
          BY <4>1 DEF ClientEnd, ClientState
        <4> QED
          BY <3>2, <4>2 DEF ClientTypes
      <3> QED
        BY <3>1, <3>2 DEF ClientTypes
    <2> QED
      BY <2>2, <2>3
  <1>8. ASSUME NEW s, SegmentArrives(k, s) PROVE ClientTypes' /\ UpTypes'
    <2>1. s.ack[2] \in Nat /\ s.unit \in Nat
      BY <1>4, <1>8 DEF SegmentArrives
    <2>2. <<client[k].peer, client[k].rcv + 1>> \in SeqNo
      BY <1>1 DEF SeqNo
    <2>3. \/ UNCHANGED toGw \/ Acknowledge(k, AckOf(k))
          \/ Acknowledge(k, <<client[k].peer, client[k].rcv + 1>>)
      BY <1>8 DEF SegmentArrives
    <2>4. UpTypes'
      BY <1>1, <2>2, <2>3, AcknowledgeTypes DEF UpTypes
    <2>5. Append(client[k].got, s.unit) \in Seq(Nat)
      BY <1>1, <2>1
    <2>6. Later(client[k].una, s.ack[2]) \in Nat
      BY <1>1, <2>1 DEF Later
    <2>7. CASE UNCHANGED client
      BY <2>4, <2>7 DEF ClientTypes
    <2>8. CASE client' = [client EXCEPT
                 ![k].una = Later(@, s.ack[2]),
                 ![k].rcv = IF s.f = "ACK" THEN @ ELSE @ + 1,
                 ![k].got = IF s.f = "DATA" THEN Append(@, s.unit) ELSE @,
                 ![k].eof = @ \/ s.f = "FIN"]
      <3> DEFINE r == [client[k] EXCEPT
                 !.una = Later(@, s.ack[2]),
                 !.rcv = IF s.f = "ACK" THEN @ ELSE @ + 1,
                 !.got = IF s.f = "DATA" THEN Append(@, s.unit) ELSE @,
                 !.eof = @ \/ s.f = "FIN"]
      <3>1. client' = [client EXCEPT ![k] = r]
        BY <2>8
      <3> DEFINE una == Later(client[k].una, s.ack[2])
                 rcv == IF s.f = "ACK" THEN client[k].rcv ELSE client[k].rcv + 1
                 got == IF s.f = "DATA" THEN Append(client[k].got, s.unit) ELSE client[k].got
                 eof == client[k].eof \/ s.f = "FIN"
      <3>2. una \in Nat /\ rcv \in Nat /\ got \in Seq(Nat)
        BY <1>1, <2>5, <2>6
      <3>3. eof \in BOOLEAN
        OBVIOUS
      <3>4. r = [client[k] EXCEPT !.una = una, !.rcv = rcv, !.got = got, !.eof = eof]
        OBVIOUS
      <3>5. client[k] \in ClientEnd
        BY DEF ClientTypes
      <3>6. ASSUME NEW u \in Nat, NEW v \in Nat, NEW w \in Seq(Nat), NEW b \in BOOLEAN
            PROVE  [client[k] EXCEPT !.una = u, !.rcv = v, !.got = w, !.eof = b]
                       \in ClientEnd
        BY <3>5 DEF ClientEnd
      <3>7. r \in ClientEnd
        <4> HIDE DEF una, rcv, got, eof, r
        <4> QED
          BY <3>2, <3>3, <3>4, <3>6
      <3> QED
        BY <2>4, <3>1, <3>7, ClientUpdate
    <2> QED
      BY <1>8, <2>7, <2>8 DEF SegmentArrives
  <1>9. CASE ClientReceives(k)
    <2>1. PICK s : \/ Unacceptable(k, s) \/ SynAnswered(k, s) \/ Ignored(k, s)
                   \/ Over(k, s) \/ ResetArrives(k, s) \/ SegmentArrives(k, s)
      BY <1>9 DEF ClientReceives
    <2>2. Arriving(k, s)
      BY <2>1 DEF Unacceptable, SynAnswered, Ignored, Over, ResetArrives, SegmentArrives
    <2> QED
      BY <1>4, <1>5, <1>6, <1>7, <1>8, <2>1, <2>2
  <1> QED
    BY <1>2, <1>3, <1>9

LEMMA FaultTypes ==
    ASSUME TableTypes, ClientTypes, UpTypes, DownTypes, NEW k \in Keys,
           LoseUp(k) \/ LoseDown(k) \/ Retransmit(k)
    PROVE  TableTypes' /\ ClientTypes' /\ UpTypes' /\ DownTypes'
  <1>1. Fault => faults' \in 0..MaxFaults
    BY GatewayBounds DEF Fault, TableTypes
  <1>2. CASE LoseUp(k)
    <2>1. toGw[k] \in Seq(UpSegment) /\ toGw[k] # <<>>
      BY <1>2 DEF LoseUp, UpTypes
    <2>2. Tail(toGw[k]) \in Seq(UpSegment)
      BY <2>1
    <2> QED
      BY <1>1, <1>2, <2>2 DEF LoseUp, UpTypes, TableTypes, ConnTypes, HostTypes,
         ClientTypes, DownTypes
  <1>3. CASE LoseDown(k)
    <2>1. toClient[k] \in Seq(DownSegment) /\ toClient[k] # <<>>
      BY <1>3 DEF LoseDown, DownTypes
    <2>2. Tail(toClient[k]) \in Seq(DownSegment)
      BY <2>1
    <2> QED
      BY <1>1, <1>3, <2>2 DEF LoseDown, DownTypes, TableTypes, ConnTypes, HostTypes,
         ClientTypes, UpTypes
  <1>4. CASE Retransmit(k)
    <2>1. <<client[k].isn, client[k].una>> \in SeqNo /\ AckOf(k) \in SeqNo
      BY DEF ClientTypes, ClientEnd, SeqNo, Initial, AckOf
    <2>2. UpTypes'
      <3>1. \E f \in {"FIN", "DATA"} :
                Send(k, Up(f, <<client[k].isn, client[k].una>>, AckOf(k)))
        BY <1>4 DEF Retransmit
      <3> QED
        BY <2>1, <3>1, UpIsSegment, SendTypes
    <2> QED
      BY <1>1, <1>4, <2>2 DEF Retransmit, TableTypes, ConnTypes, HostTypes, ClientTypes,
         DownTypes
  <1> QED
    BY <1>2, <1>3, <1>4

\* GatewayTypeOK: tables, connections, segments and counters keep their types.
THEOREM GatewayTyped == Spec => []GatewayTypeOK
  <1>1. Init => GatewayTypeOK
    BY InitTypes
  <1>2. GatewayTypeOK /\ [Next]_vars => GatewayTypeOK'
    <2> SUFFICES ASSUME GatewayTypeOK, [Next]_vars PROVE GatewayTypeOK'
      OBVIOUS
    <2>1. TableTypes /\ ClientTypes /\ UpTypes /\ DownTypes
      BY TypesSplit
    <2>2. TableTypes' /\ ClientTypes' /\ UpTypes' /\ DownTypes'
      <3>1. CASE UNCHANGED vars
        BY <2>1, <3>1 DEF vars, TableTypes, ConnTypes, HostTypes, ClientTypes, UpTypes,
           DownTypes
      <3>2. CASE Next
        BY <2>1, <3>2, HandleTypes, AttemptTypes, ProgramTypes, KernelTypes, FaultTypes
           DEF Next, Gateway, Host, Programs, Kernel, Faults
      <3> QED
        BY <3>1, <3>2
    <2>3. GatewayTypeOK' <=> TableTypes' /\ ClientTypes' /\ UpTypes' /\ DownTypes'
      BY DEF GatewayTypeOK, TableTypes, ConnTypes, HostTypes, ClientTypes, UpTypes, DownTypes
    <2> QED
      BY <2>2, <2>3
  <1> QED
    BY <1>1, <1>2, PTL DEF Spec

-----------------------------------------------------------------------------
(* One attempt per key.                                                    *)

\* OnePerKey as it is used: by its parts.
Alone == \A c, d \in Attempts : InUse(c) /\ InUse(d) /\ c # d => conn[c].key # conn[d].key
PendingExact == \A k \in Keys : k \in pending <=>
           \E c \in Attempts : conn[c].key = k /\ conn[c].at \in {"gating", "opening"}
TableExact == \A k \in Keys : \A c \in Attempts :
           tcp[k] = c <=> conn[c].key = k /\ conn[c].at = "up"

LEMMA OnePerKeySplit == OnePerKey <=> Alone /\ PendingExact /\ TableExact
  BY DEF OnePerKey, Alone, PendingExact, TableExact

\* The steps that neither move an attempt on nor touch _pending and _tcp.
SameLedger ==
    /\ UNCHANGED <<pending, tcp>>
    /\ \A c \in Attempts : conn'[c].at = conn[c].at /\ conn'[c].key = conn[c].key

LEMMA LedgerKept ==
    ASSUME OnePerKey, SameLedger
    PROVE  OnePerKey'
  BY DEF OnePerKey, SameLedger, InUse

\* The steps that move an attempt on.
Moves(c) ==
    \/ \E k \in Keys : SynNew(k, c) \/ OnReset(k, c)
    \/ GateAllows(c) \/ GateRefuses(c) \/ OpenFails(c) \/ Opened(c) \/ RelayEnds(c)

LEMMA MoveOrKeep ==
    ASSUME GatewayTypeOK, [Next]_vars
    PROVE  \/ SameLedger
           \/ \E c \in Attempts : Moves(c)
  <1>1. ConnTypes
    BY DEF GatewayTypeOK, ConnTypes
  <1>2. UNCHANGED <<pending, tcp, conn>> => SameLedger
    BY DEF SameLedger
  <1>3. ASSUME NEW k \in Keys, HandleSyn(k) \/ HandleOther(k)
        PROVE  SameLedger \/ \E c \in Attempts : Moves(c)
    <2>1. CASE SynWhilePending(k) \/ SynAgain(k) \/ SynToWeb(k) \/ StrayReset(k) \/ OnAck(k)
      BY <1>2, <2>1 DEF SynWhilePending, SynAgain, SynToWeb, StrayReset, OnAck
    <2>2. CASE \E f \in {"DATA", "FIN", "ACK"} : Stray(k, f)
      BY <1>2, <2>2 DEF Stray
    <2>3. ASSUME NEW c \in Attempts, SynNew(k, c) \/ OnReset(k, c)
          PROVE  Moves(c)
      BY <2>3 DEF Moves
    <2>4. ASSUME NEW c \in Attempts, OnData(k, c) \/ OnFin(k, c)
          PROVE  SameLedger
      <3>1. conn' = [conn EXCEPT ![c].cnext = @ + 1] /\ UNCHANGED <<pending, tcp>>
        BY <2>4 DEF OnData, OnFin
      <3> QED
        BY <1>1, <3>1 DEF ConnTypes, Attempt, SameLedger
    <2> QED
      BY <1>3, <2>1, <2>2, <2>3, <2>4 DEF HandleSyn, HandleOther
  <1>4. ASSUME NEW c \in Attempts, Connecting(c) \/ Relaying(c)
        PROVE  SameLedger \/ Moves(c)
    <2>1. CASE Connecting(c) \/ RelayEnds(c)
      BY <2>1 DEF Connecting, Moves
    <2>2. CASE Relay(c)
      BY <1>1, <2>2 DEF Relay, ConnTypes, Attempt, SameLedger
    <2> QED
      BY <1>4, <2>1, <2>2 DEF Relaying
  <1>5. CASE Host
    BY <1>2, <1>5 DEF Host, HostActs, HostSends, HostCloses, HostBreaks, HostStalls, HostTakes
  <1>6. CASE Programs
    BY <1>2, <1>6 DEF Programs, Connect, GiveUp, Write, ShutDown, Abort
  <1>7. CASE Kernel
    <2>1. PICK k \in Keys : ResendSyn(k) \/ ClientReceives(k) \/ GoesOut(k)
      BY <1>7 DEF Kernel
    <2>2. ClientReceives(k) => \E s : Arriving(k, s)
      BY DEF ClientReceives, Unacceptable, SynAnswered, Ignored, Over, ResetArrives,
         SegmentArrives
    <2> QED
      BY <1>2, <2>1, <2>2 DEF ResendSyn, GoesOut, Finished, OrphanExpires, Arriving
  <1>8. CASE Faults
    BY <1>2, <1>8 DEF Faults, LoseUp, LoseDown, Retransmit
  <1>9. CASE UNCHANGED vars
    BY <1>2, <1>9 DEF vars
  <1> QED
    BY <1>3, <1>4, <1>5, <1>6, <1>7, <1>8, <1>9 DEF Next, Gateway

\* What a move does to the attempt, _pending and _tcp.
LEMMA MoveKeepsOnePerKey ==
    ASSUME GatewayTypeOK, OnePerKey, NEW c \in Attempts, Moves(c)
    PROVE  OnePerKey'
  <1>1. /\ ConnTypes /\ \A d \in Attempts : conn[d].key \in Keys
        /\ tcp \in [Keys -> Attempts \cup {NoConn}] /\ pending \subseteq Keys
        /\ NoConn \notin Attempts
    BY NoConnIsNoAttempt DEF GatewayTypeOK, ConnTypes, Attempt
  <1>2. \A d \in Attempts : d # c =>
            /\ conn'[d].at = conn[d].at /\ conn'[d].key = conn[d].key
            /\ conn'[d] = conn[d]
    BY <1>1 DEF Moves, SynNew, OnReset, GateAllows, GateRefuses, OpenFails,
       Refuse, Opened, RelayEnds, ConnTypes
  <1>3. Alone /\ PendingExact /\ TableExact
    BY OnePerKeySplit
  <1>4. ASSUME NEW k \in Keys, SynNew(k, c)
        PROVE  OnePerKey'
    <2>1. /\ conn[c].at = "unused" /\ k \notin pending /\ tcp[k] = NoConn
          /\ conn'[c].at \in {"gating", "opening"} /\ conn'[c].key = k
          /\ pending' = pending \cup {k} /\ tcp' = tcp
      BY <1>1, <1>4 DEF SynNew, ConnTypes, Attempt
    <2>2. \A d \in Attempts : InUse(d) => conn[d].key # k
      BY <1>1, <1>3, <2>1 DEF PendingExact, TableExact, InUse
    <2> QED
      BY <1>1, <1>2, <1>3, <2>1, <2>2 DEF OnePerKey, Alone, PendingExact, TableExact, InUse
  <1>5. ASSUME NEW k \in Keys, OnReset(k, c)
        PROVE  OnePerKey'
    <2>1. /\ tcp[k] = c /\ conn'[c].at = "ended" /\ conn'[c].key = conn[c].key
          /\ pending' = pending /\ tcp' = [tcp EXCEPT ![k] = NoConn]
      BY <1>1, <1>5 DEF OnReset, ConnTypes, Attempt
    <2>2. conn[c].key = k /\ conn[c].at = "up"
      BY <1>3, <2>1 DEF TableExact
    <2> QED
      BY <1>1, <1>2, <1>3, <2>1, <2>2 DEF OnePerKey, Alone, PendingExact, TableExact, InUse
  <1>6. CASE GateAllows(c)
    <2>1. /\ conn[c].at = "gating" /\ conn'[c].at = "opening" /\ conn'[c].key = conn[c].key
          /\ pending' = pending /\ tcp' = tcp
      BY <1>1, <1>6 DEF GateAllows, ConnTypes, Attempt
    <2> QED
      BY <1>1, <1>2, <1>3, <2>1 DEF OnePerKey, Alone, PendingExact, TableExact, InUse
  <1>7. CASE Opened(c)
    <2>1. /\ conn[c].at = "opening" /\ conn'[c].at = "up" /\ conn'[c].key = conn[c].key
          /\ pending' = pending \ {conn[c].key}
          /\ tcp' = [tcp EXCEPT ![conn[c].key] = c]
      BY <1>1, <1>7 DEF Opened, ConnTypes, Attempt
    <2> QED
      BY <1>1, <1>2, <1>3, <2>1 DEF OnePerKey, Alone, PendingExact, TableExact, InUse
  <1>8. CASE RelayEnds(c)
    <2>1. /\ conn[c].at = "up" /\ conn'[c].at = "ended" /\ conn'[c].key = conn[c].key
          /\ pending' = pending /\ tcp' = [tcp EXCEPT ![conn[c].key] = NoConn]
      BY <1>1, <1>8 DEF RelayEnds, ConnTypes, Attempt
    <2> QED
      BY <1>1, <1>2, <1>3, <2>1 DEF OnePerKey, Alone, PendingExact, TableExact, InUse
  <1>9. ASSUME conn[c].at \in {"gating", "opening"}, Refuse(c)
        PROVE  OnePerKey'
    <2>1. /\ conn'[c].at = "ended" /\ conn'[c].key = conn[c].key
          /\ pending' = pending \ {conn[c].key} /\ tcp' = tcp
      BY <1>1, <1>9 DEF Refuse, ConnTypes, Attempt
    <2> QED
      BY <1>1, <1>2, <1>3, <1>9, <2>1 DEF OnePerKey, Alone, PendingExact, TableExact, InUse
  <1> QED
    BY <1>4, <1>5, <1>6, <1>7, <1>8, <1>9 DEF Moves, GateRefuses, OpenFails

\* OnePerKey: whatever the order of packets, gate answers, opened sockets and
\* ending relays, a key has one attempt and the table knows it.
THEOREM OneRelayPerKey == Spec => []OnePerKey
  <1>1. Init => OnePerKey
    BY NoConnIsNoAttempt DEF Init, OnePerKey, InUse
  <1>2. GatewayTypeOK /\ OnePerKey /\ [Next]_vars => OnePerKey'
    BY MoveOrKeep, LedgerKept, MoveKeepsOnePerKey
  <1> QED
    BY <1>1, <1>2, GatewayTyped, PTL DEF Spec

-----------------------------------------------------------------------------
(* Consent.                                                                *)

Agreed(c) == /\ dest[conn[c].key] # "web"
             /\ dest[conn[c].key] = "gated" => conn[c].allowed

Untouched(c) == host[c].got = <<>> /\ host[c].sent = 0

\* The strengthening: a relay needs consent too, an attempt at the gate is not
\* for the ports of the proxy, and an attempt not made yet has exchanged nothing.
ConsentInv ==
    \A c \in Attempts :
        /\ conn[c].at = "unused" => Untouched(c)
        /\ conn[c].at = "gating" => dest[conn[c].key] # "web"
        /\ conn[c].at \in {"opening", "up"} \/ ~Untouched(c) => Agreed(c)

\* Of an attempt, what the invariants below look at.
SameAttempt(c) ==
    /\ conn'[c].at = conn[c].at /\ conn'[c].key = conn[c].key
    /\ conn'[c].allowed = conn[c].allowed /\ conn'[c].isn = conn[c].isn
    /\ host'[c].got = host[c].got /\ host'[c].sent = host[c].sent

ConsentOf(c) ==
    /\ conn[c].at = "unused" => Untouched(c)
    /\ conn[c].at = "gating" => dest[conn[c].key] # "web"
    /\ conn[c].at \in {"opening", "up"} \/ ~Untouched(c) => Agreed(c)

\* Every step leaves a given attempt alone but for its own moves, data handed
\* to its host and data of its host.
LEMMA StepOfAttempt ==
    ASSUME GatewayTypeOK, OnePerKey, [Next]_vars, NEW c \in Attempts
    PROVE  /\ dest' = dest
           /\ \/ SameAttempt(c)
              \/ \E k \in Keys : SynNew(k, c) \/ OnReset(k, c)
              \/ conn[c].at = "up" /\ \E k \in Keys : OnData(k, c)
              \/ GateAllows(c) \/ GateRefuses(c) \/ OpenFails(c) \/ Opened(c)
              \/ RelayEnds(c) \/ HostSends(c)
  <1>1. ConnTypes /\ HostTypes /\ TableExact
    BY OnePerKeySplit DEF GatewayTypeOK, ConnTypes, HostTypes
  <1>2. UNCHANGED <<conn, host>> => SameAttempt(c)
    BY DEF SameAttempt
  <1>3. ASSUME NEW k \in Keys, HandleSyn(k) \/ HandleOther(k)
        PROVE  /\ dest' = dest
               /\ \/ SameAttempt(c) \/ SynNew(k, c) \/ OnReset(k, c)
                  \/ conn[c].at = "up" /\ OnData(k, c)
    <2>1. CASE SynWhilePending(k) \/ SynAgain(k) \/ SynToWeb(k) \/ StrayReset(k) \/ OnAck(k)
      BY <1>2, <2>1 DEF SynWhilePending, SynAgain, SynToWeb, StrayReset, OnAck
    <2>2. CASE \E f \in {"DATA", "FIN", "ACK"} : Stray(k, f)
      BY <1>2, <2>2 DEF Stray
    <2>3. ASSUME NEW d \in Attempts, SynNew(k, d) \/ OnReset(k, d)
          PROVE  dest' = dest /\ (d = c \/ SameAttempt(c))
      BY <1>1, <2>3 DEF SynNew, OnReset, ConnTypes, HostTypes, HostEnd, SameAttempt
    <2>4. ASSUME NEW d \in Attempts, OnData(k, d)
          PROVE  dest' = dest /\ conn[d].at = "up" /\ (d = c \/ SameAttempt(c))
      BY <1>1, <2>4 DEF OnData, ConnTypes, HostTypes, SameAttempt, TableExact
    <2>5. ASSUME NEW d \in Attempts, OnFin(k, d)
          PROVE  dest' = dest /\ SameAttempt(c)
      <3>1. /\ conn' = [conn EXCEPT ![d].cnext = @ + 1] /\ dest' = dest
            /\ host' = [host EXCEPT ![d].shut = TRUE]
        BY <2>5 DEF OnFin
      <3> QED
        BY <1>1, <3>1 DEF ConnTypes, Attempt, HostTypes, HostEnd, SameAttempt
    <2> QED
      BY <1>3, <2>1, <2>2, <2>3, <2>4, <2>5 DEF HandleSyn, HandleOther
  <1>4. ASSUME NEW d \in Attempts, Connecting(d) \/ Relaying(d)
        PROVE  /\ dest' = dest
               /\ \/ SameAttempt(c) \/ GateAllows(c) \/ GateRefuses(c) \/ OpenFails(c)
                  \/ Opened(c) \/ RelayEnds(c)
    <2>1. dest' = dest /\ host' = host
      BY <1>4 DEF Connecting, Relaying, GateAllows, GateRefuses, OpenFails, Refuse, Opened,
         Relay, RelayEnds
    <2>2. CASE d # c
      BY <1>1, <1>4, <2>1, <2>2 DEF Connecting, Relaying, GateAllows, GateRefuses, OpenFails,
         Refuse, Opened, Relay, RelayEnds, ConnTypes, SameAttempt
    <2>3. CASE d = c /\ Relay(c)
      BY <1>1, <2>1, <2>3 DEF Relay, ConnTypes, Attempt, SameAttempt
    <2> QED
      BY <1>4, <2>1, <2>2, <2>3 DEF Connecting, Relaying
  <1>5. ASSUME NEW d \in Attempts, HostActs(d)
        PROVE  dest' = dest /\ (SameAttempt(c) \/ HostSends(c))
    <2>1. CASE HostSends(d) /\ d = c
      BY <2>1 DEF HostSends
    <2>2. CASE HostSends(d) /\ d # c
      BY <1>1, <2>2 DEF HostSends, HostTypes, SameAttempt
    <2>3. CASE HostCloses(d)
      BY <1>1, <2>3 DEF HostCloses, HostTypes, HostEnd, SameAttempt
    <2>4. CASE HostBreaks(d)
      BY <1>1, <2>4 DEF HostBreaks, HostTypes, HostEnd, SameAttempt
    <2>5. CASE HostStalls(d)
      BY <1>1, <2>5 DEF HostStalls, HostTypes, HostEnd, SameAttempt
    <2>6. CASE HostTakes(d)
      BY <1>1, <2>6 DEF HostTakes, HostTypes, HostEnd, SameAttempt
    <2> QED
      BY <1>5, <2>1, <2>2, <2>3, <2>4, <2>5, <2>6 DEF HostActs
  <1>6. CASE Programs
    BY <1>2, <1>6 DEF Programs, Connect, GiveUp, Write, ShutDown, Abort
  <1>7. CASE Kernel
    <2>1. PICK k \in Keys : ResendSyn(k) \/ ClientReceives(k) \/ GoesOut(k)
      BY <1>7 DEF Kernel
    <2>2. ClientReceives(k) => \E s : Arriving(k, s)
      BY DEF ClientReceives, Unacceptable, SynAnswered, Ignored, Over, ResetArrives,
         SegmentArrives
    <2> QED
      BY <1>2, <2>1, <2>2 DEF ResendSyn, GoesOut, Finished, OrphanExpires, Arriving
  <1>8. CASE Faults
    BY <1>2, <1>8 DEF Faults, LoseUp, LoseDown, Retransmit
  <1>9. CASE UNCHANGED vars
    BY <1>2, <1>9 DEF vars
  <1> QED
    BY <1>3, <1>4, <1>5, <1>6, <1>7, <1>8, <1>9 DEF Next, Gateway, Host

\* Consent: nothing is opened or exchanged without the gate's yes to it.
THEOREM ConsentHolds == Spec => []Consent
  <1>1. Init => ConsentInv
    BY DEF Init, ConsentInv, Untouched
  <1>2. GatewayTypeOK /\ OnePerKey /\ ConsentInv /\ [Next]_vars => ConsentInv'
    <2> SUFFICES ASSUME GatewayTypeOK, OnePerKey, ConsentInv, [Next]_vars,
                        NEW c \in Attempts
                 PROVE  ConsentOf(c)'
      BY DEF ConsentInv, ConsentOf
    <2>1. ConsentOf(c) /\ dest' = dest /\ ConnTypes /\ HostTypes /\ conn[c].key \in Keys
      BY StepOfAttempt DEF ConsentInv, ConsentOf, GatewayTypeOK, ConnTypes, HostTypes, Attempt
    <2>2. CASE SameAttempt(c)
      BY <2>1, <2>2 DEF SameAttempt, ConsentOf, Untouched, Agreed
    <2>3. ASSUME NEW k \in Keys, SynNew(k, c) PROVE ConsentOf(c)'
      <3>1. /\ host' = host /\ conn[c].at = "unused" /\ dest[k] # "web"
            /\ conn'[c].key = k /\ conn'[c].allowed = (dest[k] = "host")
            /\ conn'[c].at = IF dest[k] = "host" THEN "opening" ELSE "gating"
        BY <2>1, <2>3 DEF SynNew, ConnTypes
      <3> QED
        BY <2>1, <3>1 DEF ConsentOf, Untouched, Agreed
    <2>4. CASE GateAllows(c)
      <3>1. /\ host' = host /\ conn[c].at = "gating" /\ conn'[c].at = "opening"
            /\ conn'[c].key = conn[c].key /\ conn'[c].allowed = TRUE
        BY <2>1, <2>4 DEF GateAllows, ConnTypes, Attempt
      <3> QED
        BY <2>1, <3>1 DEF ConsentOf, Untouched, Agreed
    <2>5. ASSUME \/ \E k \in Keys : OnReset(k, c)
                 \/ GateRefuses(c) \/ OpenFails(c) \/ RelayEnds(c)
          PROVE  ConsentOf(c)'
      <3>1. /\ host'[c].got = host[c].got /\ host'[c].sent = host[c].sent
            /\ conn'[c].at = "ended"
            /\ conn'[c].key = conn[c].key /\ conn'[c].allowed = conn[c].allowed
        BY <2>1, <2>5 DEF OnReset, GateRefuses, OpenFails, Refuse, RelayEnds, ConnTypes,
           HostTypes, HostEnd, Attempt
      <3> QED
        BY <2>1, <3>1 DEF ConsentOf, Untouched, Agreed
    <2>6. CASE Opened(c)
      <3>1. /\ host' = host /\ conn[c].at = "opening" /\ conn'[c].at = "up"
            /\ conn'[c].key = conn[c].key /\ conn'[c].allowed = conn[c].allowed
        BY <2>1, <2>6 DEF Opened, ConnTypes, Attempt
      <3> QED
        BY <2>1, <3>1 DEF ConsentOf, Untouched, Agreed
    <2>7. ASSUME conn[c].at = "up", (\E k \in Keys : OnData(k, c)) \/ HostSends(c)
          PROVE  ConsentOf(c)'
      <3>1. /\ conn'[c].at = conn[c].at
            /\ conn'[c].key = conn[c].key /\ conn'[c].allowed = conn[c].allowed
        BY <2>1, <2>7 DEF OnData, HostSends, ConnTypes, Attempt
      <3> QED
        BY <2>1, <2>7, <3>1 DEF ConsentOf, Untouched, Agreed
    <2>8. HostSends(c) => conn[c].at = "up"
      BY DEF HostSends, Talking
    <2> QED
      BY <2>2, <2>3, <2>4, <2>5, <2>6, <2>7, <2>8, StepOfAttempt
  <1>3. GatewayTypeOK /\ ConsentInv => Consent
    BY DEF ConsentInv, Consent, Untouched, Agreed
  <1> QED
    BY <1>1, <1>2, <1>3, GatewayTyped, OneRelayPerKey, PTL DEF Spec

-----------------------------------------------------------------------------
(* What a step does to a key and to an attempt, in the terms of the streams. *)

Quiet(k) == /\ client'[k].isn = client[k].isn /\ client'[k].snd = client[k].snd
            /\ client'[k].fin = client[k].fin

\* What the sandbox adds to the queue of a key: an answer, a SYN, the next unit or
\* the FIN, or one of them again.
NewSegment(k, s) ==
    \/ s.f \in {"ACK", "RST"} /\ Quiet(k)
    \/ /\ s.f = "SYN" /\ s.seq[1] = client'[k].isn
       /\ \/ Quiet(k) /\ client[k].st = "synsent"
          \/ client'[k] = NewClient("synsent", client[k].isn + 1)
    \/ /\ s.f \in {"DATA", "FIN"} /\ s.seq = <<client[k].isn, client[k].snd>>
       /\ client[k].st = "established" /\ client'[k].isn = client[k].isn
       /\ client'[k].snd = client[k].snd + 1
       /\ ~client[k].fin /\ client'[k].fin = (s.f = "FIN")
       /\ s.f = "DATA" => client[k].snd <= MaxUp
    \/ /\ s.f \in {"DATA", "FIN"} /\ s.seq[1] = client[k].isn /\ faults' > 0
       /\ Quiet(k) /\ client[k].st = "established" /\ (s.f = "FIN" => client[k].fin)
       /\ s.seq[2] = client[k].una /\ client[k].una < client[k].snd
       /\ s.f = "DATA" /\ client[k].fin => client[k].una + 1 # client[k].snd

\* What leaves the queue: data and FIN of a key in the table go to its attempt.
Leaves(k, s) == s.f \in {"DATA", "FIN"} => \/ faults' > 0 \/ tcp[k] = NoConn
                                           \/ OnData(k, tcp[k]) \/ OnFin(k, tcp[k])

UpStep(k) ==
    \/ Quiet(k) /\ toGw'[k] = toGw[k]
    \/ Quiet(k) /\ toGw[k] # <<>> /\ toGw'[k] = Tail(toGw[k]) /\ Leaves(k, Head(toGw[k]))
    \/ \E s \in UpSegment : toGw'[k] = Append(toGw[k], s) /\ NewSegment(k, s)
    \/ /\ Quiet(k) /\ toGw[k] # <<>> /\ toGw[k][Len(toGw[k])].f = "ACK"
       /\ \E a \in UpSegment : a.f = "ACK" /\ toGw'[k] = [toGw[k] EXCEPT ![Len(toGw[k])] = a]

LEMMA Still ==
    ASSUME NEW k, client'[k] = client[k], toGw'[k] = toGw[k]
    PROVE  UpStep(k)
  BY DEF UpStep, Quiet

LEMMA IncomingStep ==
    ASSUME GatewayTypeOK, NEW k \in Keys, NEW f, Incoming(k, f), client' = client,
           Leaves(k, Head(toGw[k]))
    PROVE  \A j \in Keys : UpStep(j)
  <1>1. toGw \in [Keys -> Seq(UpSegment)]
    BY DEF GatewayTypeOK
  <1>2. \A j \in Keys : j # k => UpStep(j)
    BY <1>1, Still DEF Incoming
  <1>3. Quiet(k) /\ toGw[k] # <<>> /\ toGw'[k] = Tail(toGw[k])
    BY <1>1 DEF Incoming, Quiet
  <1> QED BY <1>2, <1>3 DEF UpStep

LEMMA SendStep ==
    ASSUME GatewayTypeOK, NEW k \in Keys, NEW s \in UpSegment, Send(k, s), NewSegment(k, s),
           \A j \in Keys : j # k => client'[j] = client[j]
    PROVE  \A j \in Keys : UpStep(j)
  <1>1. toGw \in [Keys -> Seq(UpSegment)]
    BY DEF GatewayTypeOK
  <1>2. \A j \in Keys : j # k => UpStep(j)
    BY <1>1, Still DEF Send
  <1>3. toGw'[k] = Append(toGw[k], s)
    BY <1>1 DEF Send
  <1> QED BY <1>2, <1>3 DEF UpStep

LEMMA AckStep ==
    ASSUME GatewayTypeOK, NEW k \in Keys, NEW rcvd \in SeqNo, Acknowledge(k, rcvd), Quiet(k),
           \A j \in Keys : j # k => client'[j] = client[j]
    PROVE  \A j \in Keys : UpStep(j)
  <1>1. toGw \in [Keys -> Seq(UpSegment)]
    BY DEF GatewayTypeOK
  <1>2. PICK a : a = Up("ACK", <<client[k].isn, client[k].snd>>, rcvd)
    OBVIOUS
  <1>3. /\ a \in UpSegment /\ a.f = "ACK"
    BY <1>2, UpIsSegment DEF Up, GatewayTypeOK, ClientEnd, SeqNo, Initial
  <1>4. toGw' = [toGw EXCEPT ![k] = IF toGw[k] # <<>> /\ toGw[k][Len(toGw[k])].f = "ACK"
                                    THEN [toGw[k] EXCEPT ![Len(toGw[k])] = a]
                                    ELSE Append(toGw[k], a)]
    BY <1>2 DEF Acknowledge
  <1>5. \A j \in Keys : j # k => UpStep(j)
    BY <1>1, <1>4, Still
  <1>6. CASE toGw[k] # <<>> /\ toGw[k][Len(toGw[k])].f = "ACK"
    <2>1. toGw'[k] = [toGw[k] EXCEPT ![Len(toGw[k])] = a]
      BY <1>1, <1>4, <1>6
    <2>2. UpStep(k)
      BY <1>3, <1>6, <2>1 DEF UpStep
    <2> QED BY <1>5, <2>2
  <1>7. CASE ~(toGw[k] # <<>> /\ toGw[k][Len(toGw[k])].f = "ACK")
    <2>1. toGw'[k] = Append(toGw[k], a)
      BY <1>1, <1>4, <1>7
    <2>2. NewSegment(k, a)
      BY <1>3 DEF NewSegment
    <2>3. UpStep(k)
      BY <1>3, <2>1, <2>2 DEF UpStep
    <2> QED BY <1>5, <2>3
  <1> QED BY <1>6, <1>7

LEMMA StepOfUp ==
    ASSUME GatewayTypeOK, OnePerKey, [Next]_vars
    PROVE  \A k \in Keys : UpStep(k)
  <1> DEFINE Goal == \A k \in Keys : UpStep(k)
  <1>1. /\ toGw \in [Keys -> Seq(UpSegment)] /\ client \in [Keys -> ClientEnd]
        /\ tcp \in [Keys -> Attempts \cup {NoConn}] /\ faults \in Nat
        /\ \A k \in Keys : client[k] \in ClientEnd /\ client[k].isn \in Initial
                           /\ client[k].snd \in Nat /\ client[k].una \in Nat
                           /\ AckOf(k) \in SeqNo
    <2>1. 0..MaxFaults \subseteq Nat
      BY GatewayBounds
    <2> QED BY <2>1 DEF GatewayTypeOK, ClientEnd, AckOf, SeqNo, Initial
  <1>2. CASE UNCHANGED <<client, toGw>>
    BY <1>2, Still
  <1>3. ASSUME NEW k \in Keys, HandleSyn(k) PROVE Goal
    <2>1. Incoming(k, "SYN") /\ client' = client
      BY <1>3 DEF HandleSyn, SynWhilePending, SynAgain, SynToWeb, SynNew
    <2>2. Leaves(k, Head(toGw[k]))
      BY <2>1 DEF Leaves, Incoming
    <2> QED BY <2>1, <2>2, IncomingStep
  <1>4. ASSUME NEW k \in Keys, HandleOther(k) PROVE Goal
    <2>1. \E f : Incoming(k, f) /\ client' = client
      BY <1>4 DEF HandleOther, Stray, StrayReset, OnAck, OnData, OnFin, OnReset
    <2>2. Leaves(k, Head(toGw[k]))
      BY <1>4 DEF HandleOther, Stray, StrayReset, OnAck, OnData, OnFin, OnReset, Leaves,
         Incoming
    <2> QED BY <2>1, <2>2, IncomingStep
  <1>5. ASSUME NEW c \in Attempts, Connecting(c) \/ Relaying(c) PROVE Goal
    BY <1>2, <1>5 DEF Connecting, Relaying, GateAllows, GateRefuses, OpenFails, Refuse,
       Opened, Relay, RelayEnds
  <1>6. CASE Host
    BY <1>2, <1>6 DEF Host, HostActs, HostSends, HostCloses, HostBreaks, HostStalls, HostTakes
  <1>7. ASSUME NEW k \in Keys,
               \/ Connect(k) \/ GiveUp(k) \/ Write(k) \/ ShutDown(k) \/ Abort(k)
               \/ ResendSyn(k) \/ GoesOut(k)
        PROVE  Goal
    <2>1. \A j \in Keys : j # k => client'[j] = client[j]
      BY <1>1, <1>7 DEF Connect, GiveUp, Write, ShutDown, Abort, ResendSyn, GoesOut, Finished,
         OrphanExpires
    <2>2. CASE Connect(k)
      <3>1. PICK s : s = Up("SYN", <<client[k].isn + 1, 0>>, Foreign)
        OBVIOUS
      <3>2. client[k].isn + 1 \in Initial
        BY <1>1, <2>2, GatewayBounds DEF Connect, Initial, ClientEnd
      <3>3. s \in UpSegment /\ s.f = "SYN" /\ s.seq[1] = client[k].isn + 1
        BY <3>1, <3>2, UpIsSegment, AttemptsAreNumbers DEF Up, SeqNo
      <3>4. client'[k] = NewClient("synsent", client[k].isn + 1) /\ Send(k, s)
        BY <1>1, <2>2, <3>1 DEF Connect
      <3>5. client'[k].isn = client[k].isn + 1
        BY <3>4 DEF NewClient
      <3> QED BY <2>1, <3>3, <3>4, <3>5, SendStep DEF NewSegment
    <2>3. CASE GiveUp(k) \/ GoesOut(k)
      <3>1. toGw' = toGw /\ Quiet(k)
        BY <1>1, <2>3 DEF GiveUp, GoesOut, Finished, OrphanExpires, Quiet, ClientEnd
      <3>2. UpStep(k)
        BY <3>1 DEF UpStep
      <3> QED BY <2>1, <3>1, <3>2, Still
    <2>4. CASE Write(k) \/ ShutDown(k)
      <3>1. PICK f \in {"DATA", "FIN"} : /\ f = IF Write(k) THEN "DATA" ELSE "FIN"
        OBVIOUS
      <3>2. PICK s : s = Up(f, <<client[k].isn, client[k].snd>>, AckOf(k))
        OBVIOUS
      <3>3. s \in UpSegment /\ s.f = f /\ s.seq = <<client[k].isn, client[k].snd>>
        BY <1>1, <3>2, UpIsSegment DEF Up, SeqNo
      <3>4. Send(k, s) /\ client[k].st = "established" /\ ~client[k].fin
        BY <2>4, <3>1, <3>2 DEF Write, ShutDown
      <3>5. /\ client'[k].isn = client[k].isn /\ client'[k].snd = client[k].snd + 1
            /\ client'[k].fin = (f = "FIN")
        <4>1. CASE Write(k)
          BY <1>1, <3>1, <3>4, <4>1 DEF Write, ClientEnd
        <4>2. CASE ~Write(k) /\ ShutDown(k)
          <5>1. client'[k] = [client[k] EXCEPT !.snd = @ + 1, !.fin = TRUE]
            BY <1>1, <4>2 DEF ShutDown
          <5> QED BY <1>1, <3>1, <4>2, <5>1 DEF ClientEnd
        <4> QED BY <2>4, <4>1, <4>2
      <3>6. f = "DATA" => client[k].snd <= MaxUp
        BY <2>4, <3>1 DEF Write
      <3>7. NewSegment(k, s)
        BY <3>3, <3>4, <3>5, <3>6 DEF NewSegment
      <3> QED BY <2>1, <3>3, <3>4, <3>7, SendStep
    <2>5. CASE Abort(k)
      <3>1. PICK s : s = Up("RST", <<client[k].isn, client[k].snd>>, AckOf(k))
        OBVIOUS
      <3>2. s \in UpSegment /\ s.f = "RST"
        BY <1>1, <3>1, UpIsSegment DEF Up, SeqNo
      <3>3. Send(k, s) /\ Quiet(k)
        BY <1>1, <2>5, <3>1 DEF Abort, Quiet, ClientEnd
      <3> QED BY <2>1, <3>2, <3>3, SendStep DEF NewSegment
    <2>6. CASE ResendSyn(k)
      <3>1. Syn(k) \in UpSegment /\ Syn(k).f = "SYN" /\ Syn(k).seq[1] = client[k].isn
        BY <1>1, UpIsSegment, AttemptsAreNumbers DEF Syn, Up, SeqNo
      <3>2. Send(k, Syn(k)) /\ Quiet(k) /\ client[k].st = "synsent" /\ client'[k] = client[k]
        BY <2>6 DEF ResendSyn, Quiet
      <3> QED BY <2>1, <3>1, <3>2, SendStep DEF NewSegment
    <2> QED BY <1>7, <2>2, <2>3, <2>4, <2>5, <2>6
  <1>8. ASSUME NEW k \in Keys, ClientReceives(k) PROVE Goal
    <2>1. PICK s : \/ Unacceptable(k, s) \/ SynAnswered(k, s) \/ Ignored(k, s)
                   \/ Over(k, s) \/ ResetArrives(k, s) \/ SegmentArrives(k, s)
      BY <1>8 DEF ClientReceives
    <2>2. Arriving(k, s)
      BY <2>1 DEF Unacceptable, SynAnswered, Ignored, Over, ResetArrives, SegmentArrives
    <2>3. s.ack \in SeqNo /\ s.seq[1] \in Initial
      BY <2>2, ArrivingTypes DEF GatewayTypeOK, DownTypes
    <2>4. Up("RST", s.ack, Foreign) \in UpSegment /\ Up("RST", s.ack, Foreign).f = "RST"
      BY <2>3, UpIsSegment, AttemptsAreNumbers DEF Up
    <2>5. /\ \A j \in Keys : j # k => client'[j] = client[j]
          /\ Quiet(k)
      <3>1. CASE client' = client
        BY <3>1 DEF Quiet
      <3>2. CASE SynAnswered(k, s)
        BY <1>1, <3>2 DEF SynAnswered, Quiet, ClientEnd
      <3>3. CASE ResetArrives(k, s)
        BY <1>1, <3>3 DEF ResetArrives, Quiet, ClientEnd
      <3>4. CASE SegmentArrives(k, s) /\ client' # client
        <4> DEFINE r == [client[k] EXCEPT
                             !.una = Later(@, s.ack[2]),
                             !.rcv = IF s.f = "ACK" THEN @ ELSE @ + 1,
                             !.got = IF s.f = "DATA" THEN Append(@, s.unit) ELSE @,
                             !.eof = @ \/ s.f = "FIN"]
        <4>1. client' = [client EXCEPT ![k] = r]
          BY <3>4 DEF SegmentArrives
        <4>2. r.isn = client[k].isn /\ r.snd = client[k].snd /\ r.fin = client[k].fin
          BY <1>1 DEF ClientEnd
        <4> HIDE DEF r
        <4> QED BY <1>1, <4>1, <4>2 DEF Quiet
      <3> QED BY <2>1, <3>1, <3>2, <3>3, <3>4 DEF Unacceptable, Ignored, Over
    <2>6. <<s.seq[1], 1>> \in SeqNo /\ <<client[k].peer, client[k].rcv + 1>> \in SeqNo
      BY <1>1, <2>3 DEF SeqNo, ClientEnd
    <2>7. \/ toGw' = toGw \/ Send(k, Up("RST", s.ack, Foreign))
          \/ \E rcvd \in SeqNo : Acknowledge(k, rcvd)
      <3>1. CASE Unacceptable(k, s) \/ Ignored(k, s) \/ Over(k, s)
        BY <3>1 DEF Unacceptable, Ignored, Over
      <3>2. CASE SynAnswered(k, s)
        BY <2>6, <3>2 DEF SynAnswered
      <3>3. CASE ResetArrives(k, s)
        BY <1>1, <3>3 DEF ResetArrives
      <3>4. CASE SegmentArrives(k, s)
        BY <1>1, <2>6, <3>4 DEF SegmentArrives
      <3> QED BY <2>1, <3>1, <3>2, <3>3, <3>4
    <2>8. CASE toGw' = toGw
      BY <2>5, <2>8, Still DEF UpStep
    <2>9. CASE Send(k, Up("RST", s.ack, Foreign))
      <3>1. NewSegment(k, Up("RST", s.ack, Foreign))
        BY <2>4, <2>5 DEF NewSegment
      <3> QED BY <2>4, <2>5, <2>9, <3>1, SendStep
    <2> QED BY <2>5, <2>7, <2>8, <2>9, AckStep
  <1>9. ASSUME NEW k \in Keys, LoseUp(k) \/ LoseDown(k) \/ Retransmit(k) PROVE Goal
    <2>1. client' = client /\ faults' > 0
      BY <1>1, <1>9 DEF LoseUp, LoseDown, Retransmit, Fault
    <2>2. CASE LoseDown(k)
      BY <2>2, <1>2 DEF LoseDown
    <2>3. CASE LoseUp(k)
      <3>1. Quiet(k) /\ toGw[k] # <<>> /\ toGw'[k] = Tail(toGw[k]) /\ Leaves(k, Head(toGw[k]))
        BY <1>1, <2>1, <2>3 DEF LoseUp, Quiet, Leaves
      <3>2. \A j \in Keys : j # k => UpStep(j)
        BY <1>1, <2>1, <2>3, Still DEF LoseUp
      <3> QED BY <3>1, <3>2 DEF UpStep
    <2>4. CASE Retransmit(k)
      <3>1. PICK f \in {"DATA", "FIN"} :
               /\ f = "FIN" => client[k].fin
               /\ f = "DATA" /\ client[k].fin => client[k].una + 1 # client[k].snd
               /\ client[k].una < client[k].snd
               /\ Send(k, Up(f, <<client[k].isn, client[k].una>>, AckOf(k)))
        BY <2>4 DEF Retransmit
      <3>2. PICK s : s = Up(f, <<client[k].isn, client[k].una>>, AckOf(k))
        OBVIOUS
      <3>3. /\ s \in UpSegment /\ s.f = f
            /\ s.seq[1] = client[k].isn /\ s.seq[2] = client[k].una
        BY <1>1, <3>2, UpIsSegment DEF Up, SeqNo
      <3>4. NewSegment(k, s)
        BY <2>1, <2>4, <3>1, <3>3 DEF NewSegment, Quiet, Retransmit
      <3> QED BY <2>1, <3>1, <3>2, <3>3, <3>4, SendStep
    <2> QED BY <1>9, <2>2, <2>3, <2>4
  <1>10. CASE UNCHANGED vars
    BY <1>2, <1>10 DEF vars
  <1>11. CASE Gateway
    BY <1>3, <1>4, <1>5, <1>11 DEF Gateway
  <1>12. CASE Programs \/ Kernel \/ Faults
    BY <1>7, <1>8, <1>9, <1>12 DEF Programs, Kernel, Faults
  <1> QED BY <1>6, <1>10, <1>11, <1>12 DEF Next

\* What a program has of its connection, if the step adds nothing to it.
Holds(k) ==
    /\ client'[k].isn = client[k].isn /\ client'[k].peer = client[k].peer
    /\ client'[k].rcv = client[k].rcv /\ client'[k].got = client[k].got
    /\ client'[k].eof = client[k].eof /\ client'[k].una >= client[k].una
    /\ client[k].fin => client'[k].fin
    /\ client'[k].fin => client[k].fin \/ client[k].st = "established"
    /\ \/ client'[k].st = client[k].st
       \/ client'[k].st \in {"closed", "refused", "reset"}

\* The SYN-ACK at the head of the queue answers its SYN.
Joins(k) ==
    /\ client[k].st = "synsent" /\ client'[k].st = "established"
    /\ toClient[k] # <<>> /\ Head(toClient[k]).f = "SYNACK"
    /\ Head(toClient[k]).ack = <<client[k].isn, 1>>
    /\ client'[k].peer = Head(toClient[k]).seq[1] /\ client'[k].rcv = 1
    /\ client'[k].isn = client[k].isn /\ client'[k].got = client[k].got
    /\ client'[k].eof = client[k].eof /\ client'[k].fin = client[k].fin
    /\ client'[k].una = 1

\* The next unit, or the end of the stream, is at the head of the queue.
Gets(k) ==
    /\ client[k].st = "established" /\ client'[k].st = "established"
    /\ toClient[k] # <<>> /\ Head(toClient[k]).f \in {"DATA", "FIN"}
    /\ Head(toClient[k]).seq = <<client[k].peer, client[k].rcv>>
    /\ client'[k].rcv = client[k].rcv + 1
    /\ client'[k].got = IF Head(toClient[k]).f = "DATA"
                        THEN Append(client[k].got, Head(toClient[k]).unit) ELSE client[k].got
    /\ client'[k].eof = (client[k].eof \/ Head(toClient[k]).f = "FIN")
    /\ client'[k].isn = client[k].isn /\ client'[k].peer = client[k].peer
    /\ client'[k].fin = client[k].fin /\ client'[k].una >= client[k].una

ClientStep(k) ==
    \/ Holds(k) \/ Joins(k) \/ Gets(k)
    \/ client'[k] = NewClient("synsent", client[k].isn + 1)

LEMMA StepOfReader ==
    ASSUME GatewayTypeOK, [Next]_vars
    PROVE  \A k \in Keys : ClientStep(k)
  <1>1. client \in [Keys -> ClientEnd]
    BY DEF GatewayTypeOK
  <1>2. \A k \in Keys : client[k].una \in Nat /\ client[k].una >= client[k].una
    BY <1>1 DEF ClientEnd
  <1>3. \A k \in Keys : client'[k] = client[k] => ClientStep(k)
    BY <1>2 DEF ClientStep, Holds
  <1>4. CASE client' = client
    BY <1>3, <1>4
  <1>5. ASSUME NEW k \in Keys,
               \/ Connect(k) \/ GiveUp(k) \/ Write(k) \/ ShutDown(k) \/ Abort(k)
               \/ GoesOut(k)
        PROVE  \A j \in Keys : ClientStep(j)
    <2>1. \A j \in Keys : j # k => client'[j] = client[j]
      BY <1>1, <1>5 DEF Connect, GiveUp, Write, ShutDown, Abort, GoesOut, Finished, OrphanExpires
    <2>2. CASE Connect(k)
      <3>1. client'[k] = NewClient("synsent", client[k].isn + 1)
        BY <1>1, <2>2 DEF Connect
      <3> QED BY <1>3, <2>1, <3>1 DEF ClientStep
    <2>3. CASE GiveUp(k) \/ Abort(k) \/ GoesOut(k)
      <3>1. Holds(k)
        BY <1>2, <1>1, <2>3 DEF GiveUp, Abort, GoesOut, Finished, OrphanExpires, Holds, ClientEnd
      <3> QED BY <1>3, <2>1, <3>1 DEF ClientStep
    <2>4. CASE Write(k)
      <3>1. client'[k] = [client[k] EXCEPT !.snd = @ + 1]
        BY <1>1, <2>4 DEF Write
      <3>2. Holds(k)
        BY <1>2, <1>1, <3>1 DEF Holds, ClientEnd
      <3> QED BY <1>3, <2>1, <3>2 DEF ClientStep
    <2>5. CASE ShutDown(k)
      <3>1. client'[k] = [client[k] EXCEPT !.snd = @ + 1, !.fin = TRUE]
            /\ client[k].st = "established"
        BY <1>1, <2>5 DEF ShutDown
      <3>2. Holds(k)
        BY <1>2, <1>1, <3>1 DEF Holds, ClientEnd
      <3> QED BY <1>3, <2>1, <3>2 DEF ClientStep
    <2> QED BY <1>5, <2>2, <2>3, <2>4, <2>5
  <1>6. ASSUME NEW k \in Keys, ClientReceives(k), client' # client
        PROVE  \A j \in Keys : ClientStep(j)
    <2>1. PICK s : SynAnswered(k, s) \/ ResetArrives(k, s) \/ SegmentArrives(k, s)
      BY <1>6 DEF ClientReceives, Unacceptable, Ignored, Over
    <2>2. toClient[k] # <<>> /\ s = Head(toClient[k])
      BY <2>1 DEF SynAnswered, ResetArrives, SegmentArrives, Arriving
    <2>3. CASE SynAnswered(k, s)
      <3>1. /\ client[k].st = "synsent" /\ s.ack = <<client[k].isn, 1>>
            /\ \/ /\ s.f = "SYNACK"
                  /\ client' = [client EXCEPT ![k] =
                        [client[k] EXCEPT !.st = "established", !.una = 1,
                                          !.peer = s.seq[1], !.rcv = 1]]
               \/ client' = [client EXCEPT ![k] = [client[k] EXCEPT !.st = "refused"]]
        BY <2>3 DEF SynAnswered
      <3>2. \A j \in Keys : j # k => client'[j] = client[j]
        BY <1>1, <3>1
      <3>3. CASE s.f = "SYNACK" /\ client' = [client EXCEPT ![k] =
                        [client[k] EXCEPT !.st = "established", !.una = 1,
                                          !.peer = s.seq[1], !.rcv = 1]]
        <4>1. client'[k] = [client[k] EXCEPT !.st = "established", !.una = 1,
                                             !.peer = s.seq[1], !.rcv = 1]
          BY <1>1, <3>3
        <4>2. /\ client'[k].st = "established" /\ client'[k].peer = s.seq[1]
              /\ client'[k].rcv = 1
              /\ client'[k].isn = client[k].isn /\ client'[k].got = client[k].got
              /\ client'[k].eof = client[k].eof /\ client'[k].fin = client[k].fin
              /\ client'[k].una = 1
          BY <1>1, <4>1 DEF ClientEnd
        <4>3. Joins(k)
          BY <2>2, <3>1, <3>3, <4>2 DEF Joins
        <4> QED BY <1>3, <3>2, <4>3 DEF ClientStep
      <3>4. CASE client' = [client EXCEPT ![k] = [client[k] EXCEPT !.st = "refused"]]
        <4>1. Holds(k)
          BY <1>2, <1>1, <3>4 DEF Holds, ClientEnd
        <4> QED BY <1>3, <3>2, <4>1 DEF ClientStep
      <3> QED BY <3>1, <3>3, <3>4
    <2>4. CASE ResetArrives(k, s)
      <3>1. client' = [client EXCEPT ![k] = [client[k] EXCEPT !.st = "reset"]]
        BY <1>6, <2>4 DEF ResetArrives
      <3>2. \A j \in Keys : j # k => client'[j] = client[j]
        BY <1>1, <3>1
      <3>3. Holds(k)
        BY <1>2, <1>1, <3>1 DEF Holds, ClientEnd
      <3> QED BY <1>3, <3>2, <3>3 DEF ClientStep
    <2>5. CASE SegmentArrives(k, s)
      <3> DEFINE una == Later(client[k].una, s.ack[2])
                 rcv == IF s.f = "ACK" THEN client[k].rcv ELSE client[k].rcv + 1
                 got == IF s.f = "DATA" THEN Append(client[k].got, s.unit) ELSE client[k].got
                 eof == client[k].eof \/ s.f = "FIN"
      <3>1. /\ client[k].st = "established" /\ s.f \in {"DATA", "FIN", "ACK"}
            /\ s.seq = <<client[k].peer, client[k].rcv>>
            /\ client' = [client EXCEPT ![k] =
                 [client[k] EXCEPT !.una = una, !.rcv = rcv, !.got = got, !.eof = eof]]
        BY <1>6, <2>5 DEF SegmentArrives, InOrder, AckOf
      <3>2. \A j \in Keys : j # k => client'[j] = client[j]
        BY <1>1, <3>1
      <3>3. una >= client[k].una
        <4>1. s.ack[2] \in Nat
          BY <2>5, ArrivingTypes DEF SegmentArrives, GatewayTypeOK, DownTypes
        <4> QED BY <1>2, <4>1 DEF Later
      <3> HIDE DEF una
      <3>4. /\ client'[k].st = client[k].st /\ client'[k].isn = client[k].isn
            /\ client'[k].peer = client[k].peer /\ client'[k].fin = client[k].fin
            /\ client'[k].rcv = rcv /\ client'[k].got = got /\ client'[k].eof = eof
            /\ client'[k].una = una
        <4> HIDE DEF rcv, got, eof
        <4> QED BY <1>1, <3>1 DEF ClientEnd
      <3>5. CASE s.f = "ACK"
        <4>1. client[k].eof \in BOOLEAN
          BY <1>1 DEF ClientEnd
        <4>2. rcv = client[k].rcv /\ got = client[k].got
          BY <3>5
        <4>3. client'[k].eof = client[k].eof
          BY <3>4, <3>5, <4>1
        <4>4. client'[k].rcv = client[k].rcv /\ client'[k].got = client[k].got
          BY <3>4, <4>2
        <4> HIDE DEF rcv, got, eof
        <4>5. Holds(k)
          BY <3>1, <3>4, <3>3, <4>3, <4>4 DEF Holds
        <4> QED BY <1>3, <3>2, <4>5 DEF ClientStep
      <3>6. CASE s.f \in {"DATA", "FIN"}
        <4>1. client'[k].rcv = client[k].rcv + 1
          BY <3>4, <3>6
        <4>2. Gets(k)
          BY <2>2, <3>1, <3>4, <3>6, <3>3, <4>1 DEF Gets
        <4> QED BY <1>3, <3>2, <4>2 DEF ClientStep
      <3> QED BY <3>1, <3>5, <3>6
    <2> QED BY <2>1, <2>3, <2>4, <2>5
  <1>7. CASE Gateway
    <2>1. ASSUME NEW j \in Keys, HandleSyn(j) PROVE UNCHANGED client
      BY <2>1 DEF HandleSyn, SynWhilePending, SynAgain, SynToWeb, SynNew
    <2>2. ASSUME NEW j \in Keys, HandleOther(j) PROVE UNCHANGED client
      BY <2>2 DEF HandleOther, Stray, StrayReset, OnAck, OnData, OnFin, OnReset
    <2>3. ASSUME NEW c \in Attempts, Connecting(c) \/ Relaying(c) PROVE UNCHANGED client
      BY <2>3 DEF Connecting, Relaying, GateAllows, GateRefuses, OpenFails, Refuse, Opened,
         Relay, RelayEnds
    <2> QED BY <1>4, <1>7, <2>1, <2>2, <2>3 DEF Gateway
  <1>8. CASE Host \/ Faults \/ UNCHANGED vars
    BY <1>4, <1>8 DEF Host, HostActs, HostSends, HostCloses, HostBreaks, HostStalls, HostTakes,
       Faults, LoseUp, LoseDown,
       Retransmit, vars
  <1>9. CASE Programs
    BY <1>5, <1>9 DEF Programs
  <1>10. CASE Kernel
    <2>1. PICK k \in Keys : ResendSyn(k) \/ ClientReceives(k) \/ GoesOut(k)
      BY <1>10 DEF Kernel
    <2> QED BY <1>4, <1>5, <1>6, <2>1 DEF ResendSyn
  <1> QED BY <1>7, <1>8, <1>9, <1>10 DEF Next

-----------------------------------------------------------------------------
\* What the gateway and the host make of an attempt, action by action.
SameConn(c) == /\ conn'[c].at = conn[c].at /\ conn'[c].key = conn[c].key
               /\ conn'[c].isn = conn[c].isn /\ conn'[c].snext = conn[c].snext
SameName(c) == conn'[c].key = conn[c].key /\ conn'[c].isn = conn[c].isn

Reads(k, f) == toGw[k] # <<>> /\ Head(toGw[k]).f = f /\ toGw'[k] = Tail(toGw[k])

Begins(c, k) ==
    /\ Reads(k, "SYN") /\ conn[c].at = "unused" /\ conn'[c].at \in {"gating", "opening"}
    /\ conn'[c].key = k /\ conn'[c].isn = Head(toGw[k]).seq[1] /\ conn'[c].snext = 0
    /\ host'[c] = host[c]
Waits(c) ==
    /\ conn[c].at \in {"gating", "opening"} /\ conn'[c].at \in {"opening", "ended"}
    /\ SameName(c) /\ conn'[c].snext = conn[c].snext /\ host'[c] = host[c]
Opens(c) ==
    /\ conn[c].at = "opening" /\ conn'[c].at = "up" /\ SameName(c) /\ conn'[c].snext = 1
    /\ host'[c] = host[c] /\ toGw' = toGw /\ client' = client
PassesUp(c, k) ==
    /\ conn[c].at = "up" /\ conn[c].key = k /\ SameConn(c) /\ Reads(k, "DATA")
    /\ client' = client
    /\ host'[c].shut = host[c].shut
    /\ host'[c].got = IF host[c].shut THEN host[c].got
                      ELSE Append(host[c].got, Head(toGw[k]).seq)
    /\ host'[c].sent = host[c].sent /\ host'[c].broken = host[c].broken
Shuts(c, k) ==
    /\ conn[c].at = "up" /\ conn[c].key = k /\ SameConn(c) /\ Reads(k, "FIN")
    /\ host'[c].shut = TRUE /\ host'[c].got = host[c].got
    /\ host'[c].sent = host[c].sent /\ host'[c].broken = host[c].broken
Cut(c, k) ==
    /\ conn[c].at = "up" /\ conn[c].key = k /\ conn'[c].at = "ended" /\ SameName(c)
    /\ conn'[c].snext = conn[c].snext
    /\ host'[c].shut = TRUE /\ host'[c].got = host[c].got
    /\ host'[c].sent = host[c].sent /\ host'[c].broken = host[c].broken
PassesDown(c) ==
    /\ conn[c].at = "up" /\ conn'[c].at = "up" /\ SameName(c)
    /\ conn'[c].snext = conn[c].snext + 1 /\ host'[c] = host[c]
    /\ conn[c].snext <= host[c].sent
Ends(c) ==
    /\ conn[c].at = "up" /\ conn'[c].at = "ended" /\ SameName(c)
    /\ conn'[c].snext = conn[c].snext + 1 /\ host'[c] = host[c]
    /\ host[c].sent = conn[c].snext - 1 \/ host[c].broken \/ host[c].shut
HostTalks(c) ==
    /\ conn[c].at = "up" /\ SameConn(c)
    /\ host'[c].shut = host[c].shut /\ host'[c].got = host[c].got
    /\ \/ host'[c].sent = host[c].sent /\ host'[c].broken = host[c].broken
       \/ host'[c].sent = host[c].sent + 1 /\ host'[c].broken = host[c].broken /\ ~host[c].broken
       \/ host'[c].sent = host[c].sent /\ host'[c].broken = TRUE /\ ~host[c].broken

AttemptStep(c) ==
    \/ SameConn(c) /\ host'[c] = host[c]
    \/ \E k \in Keys : Begins(c, k) \/ PassesUp(c, k) \/ Shuts(c, k) \/ Cut(c, k)
    \/ Waits(c) \/ Opens(c) \/ PassesDown(c) \/ Ends(c) \/ HostTalks(c)

LEMMA RelayPasses ==
    ASSUME GatewayTypeOK, NEW c \in Attempts, Relay(c)
    PROVE  PassesDown(c)
  <1>1. ConnTypes /\ HostTypes
    BY DEF GatewayTypeOK, ConnTypes, HostTypes
  <1>2. /\ conn'[c] = [conn[c] EXCEPT !.snext = @ + 1] /\ conn[c].at = "up" /\ host' = host
        /\ conn[c].snext - 1 < host[c].sent
    BY <1>1 DEF Relay, ConnTypes, Relayed
  <1>3. conn[c].snext <= host[c].sent
    <2>1. conn[c].snext \in Nat /\ host[c].sent \in 0..MaxDown
      BY <1>1 DEF ConnTypes, Attempt, HostTypes, HostEnd
    <2> QED BY <1>2, <2>1, GatewayBounds
  <1> QED BY <1>1, <1>2, <1>3 DEF PassesDown, SameName, ConnTypes, Attempt

LEMMA StepOfConn ==
    ASSUME GatewayTypeOK, OnePerKey, [Next]_vars, NEW c \in Attempts
    PROVE  AttemptStep(c)
  <1>1. /\ ConnTypes /\ HostTypes /\ TableExact /\ toGw \in [Keys -> Seq(UpSegment)]
        /\ tcp \in [Keys -> Attempts \cup {NoConn}]
    BY OnePerKeySplit DEF GatewayTypeOK, ConnTypes, HostTypes
  <1>2. CASE UNCHANGED <<conn, host>>
    BY <1>2 DEF AttemptStep, SameConn
  <1>3. ASSUME NEW k \in Keys, NEW d \in Attempts, d # c,
               \/ SynNew(k, d) \/ OnData(k, d) \/ OnFin(k, d) \/ OnReset(k, d)
               \/ Connecting(d) \/ Relaying(d)
               \/ HostActs(d)
        PROVE  AttemptStep(c)
    <2>1. conn'[c] = conn[c] /\ host'[c] = host[c]
      BY <1>1, <1>3 DEF SynNew, OnData, OnFin, OnReset, Connecting, Relaying, GateAllows,
         GateRefuses, OpenFails, Refuse, Opened, Relay, RelayEnds, HostActs, HostSends,
         HostCloses, HostBreaks, HostStalls, HostTakes, ConnTypes, HostTypes
    <2> QED BY <2>1 DEF AttemptStep, SameConn
  <1>4. ASSUME NEW k \in Keys, SynNew(k, c) PROVE Begins(c, k)
    BY <1>1, <1>4 DEF SynNew, Incoming, Begins, Reads, ConnTypes, Attempt
  <1>5. ASSUME NEW k \in Keys, OnData(k, c) PROVE PassesUp(c, k)
    <2>1. conn[c].at = "up" /\ conn[c].key = k
      BY <1>1, <1>5 DEF OnData, TableExact
    <2>2. Reads(k, "DATA")
      BY <1>1, <1>5 DEF OnData, Incoming, Reads
    <2>3. conn'[c] = [conn[c] EXCEPT !.cnext = @ + 1]
      BY <1>1, <1>5 DEF OnData, ConnTypes
    <2>4. SameConn(c)
      BY <1>1, <2>3 DEF SameConn, ConnTypes, Attempt
    <2>5. host'[c] = [host[c] EXCEPT !.got = IF host[c].shut THEN host[c].got
                                             ELSE Append(host[c].got, Head(toGw[k]).seq)]
      BY <1>1, <1>5 DEF OnData, HostTypes
    <2>6. /\ host'[c].shut = host[c].shut
          /\ host'[c].got = IF host[c].shut THEN host[c].got
                            ELSE Append(host[c].got, Head(toGw[k]).seq)
          /\ host'[c].sent = host[c].sent /\ host'[c].broken = host[c].broken
      BY <1>1, <2>5 DEF HostTypes, HostEnd
    <2> QED BY <1>5, <2>1, <2>2, <2>4, <2>6 DEF PassesUp, OnData
  <1>6. ASSUME NEW k \in Keys, OnFin(k, c) PROVE Shuts(c, k)
    <2>1. conn[c].at = "up" /\ conn[c].key = k
      BY <1>1, <1>6 DEF OnFin, TableExact
    <2>2. Reads(k, "FIN")
      BY <1>1, <1>6 DEF OnFin, Incoming, Reads
    <2>3. conn'[c] = [conn[c] EXCEPT !.cnext = @ + 1]
      BY <1>1, <1>6 DEF OnFin, ConnTypes
    <2>4. SameConn(c)
      BY <1>1, <2>3 DEF SameConn, ConnTypes, Attempt
    <2>5. host'[c] = [host[c] EXCEPT !.shut = TRUE]
      BY <1>1, <1>6 DEF OnFin, HostTypes
    <2> QED BY <1>1, <2>1, <2>2, <2>4, <2>5 DEF Shuts, HostTypes, HostEnd
  <1>7. ASSUME NEW k \in Keys, OnReset(k, c) PROVE Cut(c, k)
    <2>1. conn[c].at = "up" /\ conn[c].key = k
      BY <1>1, <1>7 DEF OnReset, TableExact
    <2> QED BY <1>1, <1>7, <2>1 DEF OnReset, Cut, SameName, ConnTypes, Attempt, HostTypes, HostEnd
  <1>8. GateAllows(c) \/ GateRefuses(c) \/ OpenFails(c) => Waits(c)
    BY <1>1 DEF GateAllows, GateRefuses, OpenFails, Refuse, Waits, SameName, ConnTypes, Attempt
  <1>9. Opened(c) => Opens(c)
    BY <1>1 DEF Opened, Opens, SameName, ConnTypes, Attempt
  <1>10. Relay(c) => PassesDown(c)
    BY RelayPasses
  <1>11. RelayEnds(c) => Ends(c)
    <2> SUFFICES ASSUME RelayEnds(c) PROVE Ends(c)
      OBVIOUS
    <2>1. /\ conn'[c] = [conn[c] EXCEPT !.at = "ended", !.snext = @ + 1]
          /\ conn[c].at = "up" /\ host' = host
          /\ host[c].sent = conn[c].snext - 1 \/ host[c].broken \/ host[c].shut
      BY <1>1 DEF RelayEnds, Relayed, ConnTypes
    <2> QED BY <1>1, <2>1 DEF Ends, SameName, ConnTypes, Attempt
  <1>12. HostActs(c) => HostTalks(c)
    BY <1>1 DEF HostActs, HostSends, HostCloses, HostBreaks, HostStalls, HostTakes, Talking,
       HostTalks, SameConn, HostTypes, HostEnd
  <1>13. CASE Gateway
    <2>1. ASSUME NEW k \in Keys, HandleSyn(k) \/ HandleOther(k) PROVE AttemptStep(c)
      <3>1. \/ UNCHANGED <<conn, host>>
            \/ \E d \in Attempts : SynNew(k, d) \/ OnData(k, d) \/ OnFin(k, d) \/ OnReset(k, d)
        BY <2>1 DEF HandleSyn, HandleOther, SynWhilePending, SynAgain, SynToWeb, Stray,
           StrayReset, OnAck
      <3> QED BY <1>2, <1>3, <1>4, <1>5, <1>6, <1>7, <3>1 DEF AttemptStep
    <2>2. ASSUME NEW d \in Attempts, Connecting(d) \/ Relaying(d) PROVE AttemptStep(c)
      <3>1. CASE d = c
        BY <1>8, <1>9, <1>10, <1>11, <2>2, <3>1 DEF Connecting, Relaying, AttemptStep
      <3>2. CASE d # c
        BY <1>3, <2>2, <3>2, SomeKey
      <3> QED BY <3>1, <3>2
    <2> QED BY <1>13, <2>1, <2>2 DEF Gateway
  <1>14. CASE Host
    <2>1. PICK d \in Attempts : HostActs(d)
      BY <1>14 DEF Host
    <2>2. CASE d = c
      BY <1>12, <2>1, <2>2 DEF AttemptStep
    <2>3. CASE d # c
      BY <1>3, <2>1, <2>3, SomeKey
    <2> QED BY <2>2, <2>3
  <1>15. CASE Programs
    BY <1>2, <1>15 DEF Programs, Connect, GiveUp, Write, ShutDown, Abort
  <1>16. CASE Kernel
    <2>1. PICK k \in Keys : ResendSyn(k) \/ ClientReceives(k) \/ GoesOut(k)
      BY <1>16 DEF Kernel
    <2>2. ClientReceives(k) => \E s : Arriving(k, s)
      BY DEF ClientReceives, Unacceptable, SynAnswered, Ignored, Over, ResetArrives,
         SegmentArrives
    <2> QED BY <1>2, <2>1, <2>2 DEF ResendSyn, GoesOut, Finished, OrphanExpires, Arriving
  <1>17. CASE Faults \/ UNCHANGED vars
    BY <1>2, <1>17 DEF Faults, LoseUp, LoseDown, Retransmit, vars
  <1> QED BY <1>13, <1>14, <1>15, <1>16, <1>17 DEF Next

LEMMA InitialsAreNumbers == Initial \subseteq Nat /\ 0..MaxUses \subseteq Nat
  BY GatewayBounds DEF Initial, Attempts

\* The numbers that the invariants compare.
LEMMA Numbers ==
    ASSUME GatewayTypeOK
    PROVE  /\ \A k \in Keys : /\ client[k].isn \in Nat /\ client[k].snd \in Nat
                              /\ client[k].rcv \in Nat /\ client[k].got \in Seq(Nat)
                              /\ client[k].eof \in BOOLEAN /\ client[k].fin \in BOOLEAN
                              /\ client[k].st \in ClientState
           /\ \A c \in Attempts : /\ conn[c].isn \in Nat /\ conn[c].snext \in Nat
                                  /\ conn[c].at \in Phase /\ conn[c].key \in Keys
                                  /\ host[c].sent \in Nat /\ host[c].got \in Seq(SeqNo)
                                  /\ host[c].shut \in BOOLEAN /\ host[c].broken \in BOOLEAN
           /\ \A k \in Keys : \A i \in 1..Len(toGw[k]) :
                  toGw[k][i].seq[1] \in Nat /\ toGw[k][i].seq[2] \in Nat
           /\ \A k \in Keys : \A i \in 1..Len(toClient[k]) : toClient[k][i] \in DownSegment
           /\ \A k \in Keys : toGw[k] \in Seq(UpSegment) /\ toClient[k] \in Seq(DownSegment)
           /\ \A s \in UpSegment : s.seq[1] \in Nat /\ s.seq[2] \in Nat
           /\ faults \in Nat
  <1>1. \A k \in Keys : client[k] \in ClientEnd
    BY DEF GatewayTypeOK
  <1>2. \A c \in Attempts : conn[c] \in Attempt /\ host[c] \in HostEnd
    BY DEF GatewayTypeOK
  <1>3. 0..MaxDown \subseteq Nat /\ 0..MaxFaults \subseteq Nat
    BY GatewayBounds
  <1>4. \A s \in UpSegment : s.seq[1] \in Nat /\ s.seq[2] \in Nat
    BY InitialsAreNumbers DEF UpSegment, SeqNo
  <1>5. \A k \in Keys : toGw[k] \in Seq(UpSegment) /\ toClient[k] \in Seq(DownSegment)
    BY DEF GatewayTypeOK
  <1>6. \A k \in Keys : \A i \in 1..Len(toGw[k]) : toGw[k][i] \in UpSegment
    BY <1>5
  <1>7. \A k \in Keys : \A i \in 1..Len(toClient[k]) : toClient[k][i] \in DownSegment
    BY <1>5
  <1>8. faults \in Nat
    BY <1>3 DEF GatewayTypeOK
  <1>9. \A k \in Keys : /\ client[k].isn \in Nat /\ client[k].snd \in Nat
                        /\ client[k].rcv \in Nat /\ client[k].got \in Seq(Nat)
                        /\ client[k].eof \in BOOLEAN /\ client[k].fin \in BOOLEAN
                        /\ client[k].st \in ClientState
    BY <1>1, InitialsAreNumbers DEF ClientEnd
  <1>10. \A c \in Attempts : /\ conn[c].isn \in Nat /\ conn[c].snext \in Nat
                             /\ conn[c].at \in Phase /\ conn[c].key \in Keys
                             /\ host[c].sent \in Nat /\ host[c].got \in Seq(SeqNo)
                             /\ host[c].shut \in BOOLEAN /\ host[c].broken \in BOOLEAN
    BY <1>2, <1>3, InitialsAreNumbers DEF Attempt, HostEnd
  <1> QED BY <1>4, <1>5, <1>6, <1>7, <1>8, <1>9, <1>10

-----------------------------------------------------------------------------
(* The way down: what is injected, and by which step of which attempt.     *)

NewDown(k, s) ==
    /\ s.f = "SYNACK" => \E c \in Attempts :
           /\ s.seq = <<c, 0>> /\ s.ack = <<conn[c].isn, 1>> /\ conn[c].key = k
           /\ (SameConn(c) /\ conn[c].at = "up") \/ Opens(c)
    /\ s.f = "DATA" => \E c \in Attempts :
           /\ conn[c].key = k /\ PassesDown(c)
           /\ s.seq = <<c, conn[c].snext>> /\ s.unit = conn[c].snext
    /\ s.f = "FIN" => \E c \in Attempts :
           /\ conn[c].key = k /\ Ends(c) /\ s.seq = <<c, conn[c].snext>>

DownStep(k) ==
    \/ toClient'[k] = toClient[k]
    \/ toClient[k] # <<>> /\ toClient'[k] = Tail(toClient[k])
    \/ \E s \in DownSegment : toClient'[k] = Append(toClient[k], s) /\ NewDown(k, s)

LEMMA InjectStep ==
    ASSUME GatewayTypeOK, NEW k \in Keys, NEW s \in DownSegment, Inject(k, s), NewDown(k, s)
    PROVE  \A j \in Keys : DownStep(j)
  <1>1. toClient \in [Keys -> Seq(DownSegment)]
    BY DEF GatewayTypeOK
  <1>2. /\ \A j \in Keys : j # k => toClient'[j] = toClient[j]
        /\ toClient'[k] = Append(toClient[k], s)
    BY <1>1 DEF Inject
  <1> QED BY <1>2 DEF DownStep

LEMMA StepOfDown ==
    ASSUME GatewayTypeOK, OnePerKey, [Next]_vars
    PROVE  \A k \in Keys : DownStep(k)
  <1> DEFINE Goal == \A k \in Keys : DownStep(k)
  <1>1. /\ TableTypes /\ ConnTypes /\ UpTypes /\ DownTypes /\ TableExact /\ NoConn \notin Attempts
        /\ \A c \in Attempts : /\ conn[c].snext \in Nat /\ conn[c].key \in Keys
                               /\ conn[c].isn \in Initial /\ conn[c].cnext \in Nat
    BY TypesSplit, OnePerKeySplit, NoConnIsNoAttempt, GatewaySegments
       DEF TableTypes, ConnTypes, Attempt
  <1>2. CASE toClient' = toClient
    BY <1>2 DEF DownStep
  <1>3. ASSUME NEW k \in Keys, toClient[k] # <<>>,
               toClient' = [toClient EXCEPT ![k] = Tail(@)]
        PROVE  Goal
    BY <1>1, <1>3 DEF DownStep, DownTypes
  <1>4. ASSUME NEW k \in Keys, NEW s \in DownSegment, Inject(k, s),
               s.f \in {"RSTACK", "RST", "ACK"}
        PROVE  Goal
    BY <1>4, InjectStep DEF NewDown
  <1>5. ASSUME NEW k \in Keys, HandleSyn(k) \/ HandleOther(k)
        PROVE  Goal
    <2>1. CASE SynWhilePending(k) \/ StrayReset(k) \/ OnAck(k)
      BY <1>2, <2>1 DEF SynWhilePending, StrayReset, OnAck
    <2>2. CASE SynAgain(k)
      <3>1. PICK c \in Attempts : c = tcp[k] /\ Inject(k, SynAck(c)) /\ conn' = conn
        BY <1>1, <2>2 DEF SynAgain, TableTypes
      <3>2. conn[c].at = "up" /\ conn[c].key = k /\ SameConn(c)
        BY <1>1, <3>1 DEF TableExact, SameConn
      <3>3. PICK s : s = SynAck(c)
        OBVIOUS
      <3>4. s \in DownSegment
        BY <1>1, <3>1, <3>3, GatewaySegments
      <3>5. s.seq = <<c, 0>> /\ s.ack = <<conn[c].isn, 1>> /\ s.f = "SYNACK"
        BY <3>3 DEF SynAck, Down
      <3>6. NewDown(k, s)
        BY <3>2, <3>5 DEF NewDown
      <3> QED
        BY <3>1, <3>3, <3>4, <3>6, InjectStep
    <2>3. CASE SynToWeb(k)
      <3>1. Refusal(Head(toGw[k]).seq[1]) \in DownSegment
        BY <1>1, <2>3, IncomingTypes, AttemptsAreNumbers, DownIsSegment
           DEF SynToWeb, Refusal, SeqNo
      <3>2. Refusal(Head(toGw[k]).seq[1]).f = "RSTACK"
        BY DEF Refusal, Down
      <3> QED
        BY <1>4, <2>3, <3>1, <3>2 DEF SynToWeb
    <2>4. CASE \E f \in {"DATA", "FIN", "ACK"} : Stray(k, f)
      <3>1. PICK f \in {"DATA", "FIN", "ACK"} : Stray(k, f)
        BY <2>4
      <3>2. Down("RST", Head(toGw[k]).ack, Foreign) \in DownSegment
        BY <1>1, <3>1, IncomingTypes, AttemptsAreNumbers, DownIsSegment DEF Stray
      <3>3. Down("RST", Head(toGw[k]).ack, Foreign).f = "RST"
        BY DEF Down
      <3> QED
        BY <1>4, <3>1, <3>2, <3>3 DEF Stray
    <2>5. ASSUME NEW c \in Attempts, SynNew(k, c) \/ OnReset(k, c) PROVE Goal
      BY <1>2, <2>5 DEF SynNew, OnReset
    <2>6. ASSUME NEW c \in Attempts, OnData(k, c) \/ OnFin(k, c) PROVE Goal
      <3>1. Inject(k, Ack(c, conn[c].cnext + 1))
        BY <2>6 DEF OnData, OnFin
      <3>2. Ack(c, conn[c].cnext + 1) \in DownSegment
        BY <1>1, GatewaySegments
      <3>3. Ack(c, conn[c].cnext + 1).f = "ACK"
        BY DEF Ack, Down
      <3> QED
        BY <1>4, <3>1, <3>2, <3>3
    <2> HIDE DEF Goal
    <2> QED
      BY <1>5, <2>1, <2>2, <2>3, <2>4, <2>5, <2>6 DEF HandleSyn, HandleOther
  <1>6. ASSUME NEW c \in Attempts, Connecting(c) \/ Relaying(c)
        PROVE  Goal
    <2>1. CASE GateAllows(c)
      BY <1>2, <2>1 DEF GateAllows
    <2>2. CASE GateRefuses(c) \/ OpenFails(c)
      <3>1. Inject(conn[c].key, Refusal(conn[c].isn))
        BY <2>2 DEF GateRefuses, OpenFails, Refuse
      <3>2. Refusal(conn[c].isn) \in DownSegment
        BY <1>1, GatewaySegments
      <3>3. Refusal(conn[c].isn).f = "RSTACK"
        BY DEF Refusal, Down
      <3> QED
        BY <1>1, <1>4, <3>1, <3>2, <3>3
    <2>3. CASE Opened(c)
      <3>1. Inject(conn[c].key, SynAck(c)) /\ conn[c].at = "opening"
        BY <2>3 DEF Opened
      <3>2. Opens(c)
        BY <1>1, <2>3 DEF Opened, Opens, SameName, ConnTypes, Attempt
      <3>3. PICK s : s = SynAck(c)
        OBVIOUS
      <3>4. s \in DownSegment
        BY <1>1, <3>3, GatewaySegments
      <3>5. s.seq = <<c, 0>> /\ s.ack = <<conn[c].isn, 1>> /\ s.f = "SYNACK"
        BY <3>3 DEF SynAck, Down
      <3>6. NewDown(conn[c].key, s)
        BY <3>2, <3>5 DEF NewDown
      <3> QED
        BY <1>1, <3>1, <3>3, <3>4, <3>6, InjectStep
    <2>4. CASE Relay(c)
      <3>1. PICK s : s = [f |-> "DATA", seq |-> <<c, conn[c].snext>>,
                          ack |-> <<conn[c].isn, conn[c].cnext>>, unit |-> Relayed(c) + 1]
        OBVIOUS
      <3>2. Relayed(c) + 1 = conn[c].snext
        BY <1>1 DEF Relayed
      <3>3. s.f = "DATA" /\ s.seq = <<c, conn[c].snext>> /\ s.unit = conn[c].snext
        BY <3>1, <3>2
      <3>4. <<c, conn[c].snext>> \in SeqNo /\ <<conn[c].isn, conn[c].cnext>> \in SeqNo
        BY <1>1, GatewaySegments
      <3>5. s \in DownSegment
        BY <1>1, <3>1, <3>2, <3>4 DEF DownSegment
      <3>6. PassesDown(c)
        BY <2>4, RelayPasses
      <3>7. NewDown(conn[c].key, s)
        BY <3>3, <3>6 DEF NewDown
      <3>8. Inject(conn[c].key, s)
        BY <2>4, <3>1 DEF Relay
      <3> QED
        BY <1>1, <3>5, <3>7, <3>8, InjectStep
    <2>5. CASE RelayEnds(c)
      <3>1. PICK s : s = Down("FIN", <<c, conn[c].snext>>, <<conn[c].isn, conn[c].cnext>>)
        OBVIOUS
      <3>2. s.f = "FIN" /\ s.seq = <<c, conn[c].snext>>
        BY <3>1 DEF Down
      <3>3. s \in DownSegment
        BY <1>1, <3>1, GatewaySegments, DownIsSegment
      <3>4. Ends(c)
        <4>1. /\ conn'[c] = [conn[c] EXCEPT !.at = "ended", !.snext = @ + 1]
              /\ conn[c].at = "up" /\ host' = host
              /\ host[c].sent = conn[c].snext - 1 \/ host[c].broken \/ host[c].shut
          BY <1>1, <2>5 DEF RelayEnds, Relayed, ConnTypes
        <4> QED BY <1>1, <4>1 DEF Ends, SameName, ConnTypes, Attempt
      <3>5. NewDown(conn[c].key, s)
        BY <3>2, <3>4 DEF NewDown
      <3>6. Inject(conn[c].key, s)
        BY <2>5, <3>1 DEF RelayEnds
      <3> QED
        BY <1>1, <3>3, <3>5, <3>6, InjectStep
    <2> HIDE DEF Goal
    <2> QED
      BY <1>6, <2>1, <2>2, <2>3, <2>4, <2>5 DEF Connecting, Relaying
  <1>7. CASE Host \/ Programs
    BY <1>2, <1>7 DEF Host, HostActs, HostSends, HostCloses, HostBreaks, HostStalls, HostTakes,
       Programs, Connect, GiveUp,
       Write, ShutDown, Abort
  <1>8. CASE Kernel
    <2>1. PICK k \in Keys : ResendSyn(k) \/ ClientReceives(k) \/ GoesOut(k)
      BY <1>8 DEF Kernel
    <2>2. ClientReceives(k) => \E s : Arriving(k, s)
      BY DEF ClientReceives, Unacceptable, SynAnswered, Ignored, Over, ResetArrives,
         SegmentArrives
    <2>3. \/ toClient' = toClient
          \/ toClient[k] # <<>> /\ toClient' = [toClient EXCEPT ![k] = Tail(@)]
      BY <2>1, <2>2 DEF ResendSyn, GoesOut, Finished, OrphanExpires, Arriving
    <2> QED
      BY <1>2, <1>3, <2>3
  <1>9. CASE Faults
    <2>1. PICK k \in Keys : LoseUp(k) \/ LoseDown(k) \/ Retransmit(k)
      BY <1>9 DEF Faults
    <2>2. \/ toClient' = toClient
          \/ toClient[k] # <<>> /\ toClient' = [toClient EXCEPT ![k] = Tail(@)]
      BY <2>1 DEF LoseUp, LoseDown, Retransmit
    <2> QED
      BY <1>2, <1>3, <2>2
  <1>10. CASE UNCHANGED vars
    BY <1>2, <1>10 DEF vars
  <1>11. CASE Gateway
    BY <1>5, <1>6, <1>11 DEF Gateway
  <1> QED BY <1>7, <1>8, <1>9, <1>10, <1>11 DEF Next

\* A segment on its way down was on its way already, or is injected by the step.
LEMMA DownQueueStep ==
    ASSUME GatewayTypeOK, OnePerKey, [Next]_vars, NEW k \in Keys,
           NEW i \in 1..Len(toClient'[k])
    PROVE  \/ \E j \in 1..Len(toClient[k]) : toClient'[k][i] = toClient[k][j]
           \/ NewDown(k, toClient'[k][i])
  <1>1. DownStep(k) /\ toClient[k] \in Seq(DownSegment)
    BY StepOfDown, Numbers
  <1>2. CASE toClient'[k] = toClient[k]
    BY <1>2
  <1>3. CASE toClient[k] # <<>> /\ toClient'[k] = Tail(toClient[k])
    <2>1. i + 1 \in 1..Len(toClient[k]) /\ toClient'[k][i] = toClient[k][i + 1]
      BY <1>1, <1>3
    <2> QED BY <2>1
  <1>4. ASSUME NEW s \in DownSegment, toClient'[k] = Append(toClient[k], s), NewDown(k, s)
        PROVE  \/ \E j \in 1..Len(toClient[k]) : toClient'[k][i] = toClient[k][j]
               \/ NewDown(k, toClient'[k][i])
    <2>1. i \in 1..Len(toClient[k]) \/ i = Len(toClient[k]) + 1
      BY <1>1, <1>4
    <2>2. CASE i \in 1..Len(toClient[k])
      BY <1>1, <1>4, <2>2
    <2>3. CASE i = Len(toClient[k]) + 1
      BY <1>1, <1>4, <2>3
    <2> QED BY <2>1, <2>2, <2>3
  <1> QED BY <1>1, <1>2, <1>3, <1>4 DEF DownStep

-----------------------------------------------------------------------------
(* Pairing.                                                                *)

\* An attempt that has begun for this key and this initial number.
Begun(c, k, isn) == /\ c \in Attempts /\ conn[c].at # "unused"
                    /\ conn[c].key = k /\ conn[c].isn = isn

\* The strengthening: every SYN-ACK on its way was made for the use of the key
\* that it acknowledges.
PairedInv ==
    /\ \A k \in Keys : client[k].st = "established" =>
           Begun(client[k].peer, k, client[k].isn)
    /\ \A k \in Keys : \A i \in 1..Len(toClient[k]) : toClient[k][i].f = "SYNACK" =>
           \A isn : toClient[k][i].ack = <<isn, 1>> => Begun(toClient[k][i].seq[1], k, isn)

LEMMA BegunStays ==
    ASSUME GatewayTypeOK, OnePerKey, [Next]_vars, NEW c, NEW k, NEW isn, Begun(c, k, isn)
    PROVE  Begun(c, k, isn)'
  <1>1. c \in Attempts /\ ConnTypes
    BY DEF Begun, GatewayTypeOK, ConnTypes
  <1>2. CASE SameAttempt(c)
    BY <1>2 DEF SameAttempt, Begun
  <1>3. ASSUME \/ \E j \in Keys : OnReset(j, c) \/ OnData(j, c)
               \/ GateAllows(c) \/ GateRefuses(c) \/ OpenFails(c) \/ Opened(c)
               \/ RelayEnds(c) \/ HostSends(c)
        PROVE  Begun(c, k, isn)'
    BY <1>1, <1>3 DEF Begun, OnReset, OnData, GateAllows, GateRefuses, OpenFails, Refuse,
       Opened, RelayEnds, HostSends, ConnTypes, Attempt
  <1>4. ~(\E j \in Keys : SynNew(j, c))
    BY DEF SynNew, Begun
  <1> QED
    BY <1>1, <1>2, <1>3, <1>4, StepOfAttempt

\* A SYN-ACK is injected only by or for an attempt of that key that is open.
LEMMA SynAckIsOfAttempt ==
    ASSUME GatewayTypeOK, OnePerKey, [Next]_vars, NEW k \in Keys,
           NEW i \in 1..Len(toClient'[k]), toClient'[k][i].f = "SYNACK"
    PROVE  \/ \E j \in 1..Len(toClient[k]) : toClient'[k][i] = toClient[k][j]
           \/ \E c \in Attempts : /\ toClient'[k][i].seq = <<c, 0>>
                                  /\ toClient'[k][i].ack = <<conn[c].isn, 1>>
                                  /\ Begun(c, k, conn[c].isn)
  <1>1. CASE NewDown(k, toClient'[k][i])
    <2>1. PICK c \in Attempts :
              /\ toClient'[k][i].seq = <<c, 0>> /\ toClient'[k][i].ack = <<conn[c].isn, 1>>
              /\ conn[c].key = k /\ conn[c].at \in {"up", "opening"}
      BY <1>1 DEF NewDown, Opens
    <2> QED BY <2>1 DEF Begun
  <1> QED BY <1>1, DownQueueStep

LEMMA PairedInvariant == Spec => []PairedInv
  <1>1. Init => PairedInv
    BY DEF Init, PairedInv, NewClient
  <1>2. GatewayTypeOK /\ OnePerKey /\ PairedInv /\ [Next]_vars => PairedInv'
    <2> SUFFICES ASSUME GatewayTypeOK, OnePerKey, PairedInv, [Next]_vars
                 PROVE  PairedInv'
      OBVIOUS
    <2>1. ASSUME NEW k \in Keys, client'[k].st = "established"
          PROVE  Begun(client[k].peer, k, client[k].isn)'
      <3>1. Begun(client'[k].peer, k, client'[k].isn)
        <4>1. CASE Joins(k)
          <5>1. 1 \in 1..Len(toClient[k]) /\ Head(toClient[k]) = toClient[k][1]
            BY <4>1, Numbers DEF Joins
          <5> QED
            BY <4>1, <5>1 DEF Joins, PairedInv
        <4>2. CASE Holds(k) \/ Gets(k)
          <5>1. /\ client[k].st = "established"
                /\ client'[k].peer = client[k].peer /\ client'[k].isn = client[k].isn
            BY <2>1, <4>2 DEF Holds, Gets
          <5> QED
            BY <5>1 DEF PairedInv
        <4>3. client'[k] # NewClient("synsent", client[k].isn + 1)
          BY <2>1 DEF NewClient
        <4> QED
          BY <4>1, <4>2, <4>3, StepOfReader DEF ClientStep
      <3> QED
        BY <3>1, BegunStays DEF Begun
    <2>2. ASSUME NEW k \in Keys, NEW i \in 1..Len(toClient'[k]), NEW isn,
                 toClient'[k][i].f = "SYNACK", toClient'[k][i].ack = <<isn, 1>>
          PROVE  Begun(toClient[k][i].seq[1], k, isn)'
      <3>1. Begun(toClient'[k][i].seq[1], k, isn)
        <4>1. CASE \E j \in 1..Len(toClient[k]) : toClient'[k][i] = toClient[k][j]
          BY <2>2, <4>1 DEF PairedInv
        <4>2. ASSUME NEW c \in Attempts, Begun(c, k, conn[c].isn),
                     toClient'[k][i].seq = <<c, 0>>, toClient'[k][i].ack = <<conn[c].isn, 1>>
              PROVE  Begun(toClient'[k][i].seq[1], k, isn)
          <5>1. toClient'[k][i].seq[1] = c /\ conn[c].isn = isn
            BY <2>2, <4>2
          <5> QED
            BY <4>2, <5>1
        <4> QED
          BY <2>2, <4>1, <4>2, SynAckIsOfAttempt
      <3> QED
        BY <3>1, BegunStays DEF Begun
    <2> QED
      BY <2>1, <2>2 DEF PairedInv
  <1> QED
    BY <1>1, <1>2, GatewayTyped, OneRelayPerKey, PTL DEF Spec

\* Paired: a program is connected to the attempt that its own SYN led to.
THEOREM PairedHolds == Spec => []Paired
  <1>1. PairedInv => Paired
    BY DEF PairedInv, Paired, Begun
  <1> QED
    BY <1>1, PairedInvariant, PTL

-----------------------------------------------------------------------------
(* The way up: UpInv is inductive.                                         *)

\* The segments whose sequence number is the use of the key they belong to.
Numbered == {"SYN", "DATA", "FIN"}

\* An attempt whose connection to the host was opened.
Reached(c, k, isn) == /\ c \in Attempts /\ conn[c].snext > 0
                      /\ conn[c].key = k /\ conn[c].isn = isn

\* The program has closed its side of that use of the key, or gone on to another.
Moved(k, isn) == client[k].isn > isn \/ client[k].fin

\* Uses of a key are read one after the other.
InSequence(k) ==
    /\ \A i \in 1..Len(toGw[k]) : toGw[k][i].f \in Numbered =>
           /\ toGw[k][i].seq[1] <= client[k].isn
           /\ \A j \in 1..Len(toGw[k]) : i < j /\ toGw[k][j].f \in Numbered =>
                  toGw[k][i].seq[1] <= toGw[k][j].seq[1]
           /\ \A c \in Attempts : Begun(c, k, conn[c].isn) =>
                  conn[c].isn <= toGw[k][i].seq[1]
    /\ \A c \in Attempts : Begun(c, k, conn[c].isn) => conn[c].isn <= client[k].isn

\* Only a program that has closed its side has sent a FIN.
Closes(k) == \A i \in 1..Len(toGw[k]) : toGw[k][i].f = "FIN" => Moved(k, toGw[k][i].seq[1])

UpInv == \A k \in Keys : InSequence(k) /\ Closes(k)

\* A program never goes back to an earlier use of its key, nor opens its side again.
LEMMA ClientMovesOn ==
    ASSUME GatewayTypeOK, [Next]_vars, NEW k \in Keys
    PROVE  /\ client'[k].isn \in Nat /\ client'[k].isn >= client[k].isn
           /\ client'[k].isn = client[k].isn /\ client[k].fin => client'[k].fin
           /\ \A isn \in Nat : isn <= client[k].isn /\ Moved(k, isn) => Moved(k, isn)'
  <1>1. ClientStep(k) /\ client[k].isn \in Nat
    BY StepOfReader, Numbers
  <1>2. \/ client'[k].isn = client[k].isn /\ (client[k].fin => client'[k].fin)
        \/ client'[k].isn = client[k].isn + 1
    BY <1>1 DEF ClientStep, Holds, Joins, Gets, NewClient
  <1>3. CASE client'[k].isn = client[k].isn /\ (client[k].fin => client'[k].fin)
    <2>1. \A isn \in Nat : Moved(k, isn) => Moved(k, isn)'
      BY <1>3, Zenon DEF Moved
    <2>2. client'[k].isn \in Nat /\ client'[k].isn >= client[k].isn
      BY <1>1, <1>3
    <2> QED BY <1>3, <2>1, <2>2, Zenon
  <1>4. CASE client'[k].isn = client[k].isn + 1
    <2>1. /\ client'[k].isn \in Nat /\ client'[k].isn >= client[k].isn
          /\ client'[k].isn # client[k].isn
          /\ \A isn \in Nat : isn <= client[k].isn => client'[k].isn > isn
      BY <1>1, <1>4
    <2> QED BY <2>1, Zenon DEF Moved
  <1> QED BY <1>2, <1>3, <1>4

\* A named attempt keeps its name; a new one is named by the SYN it takes.
LEMMA NamesStay ==
    ASSUME GatewayTypeOK, OnePerKey, [Next]_vars, NEW c \in Attempts,
           conn'[c].at # "unused"
    PROVE  \/ conn[c].at # "unused" /\ SameName(c)
           \/ \E k \in Keys : Begins(c, k)
  <1>1. AttemptStep(c)
    BY StepOfConn
  <1> QED BY <1>1 DEF AttemptStep, SameConn, SameName, PassesUp, Shuts, Cut, Waits, Opens,
             PassesDown, Ends, HostTalks

\* Where a numbered segment of the queue comes from: it was in the queue, d places
\* further, or it is the one the step adds.
Was(k, i, d) == i + d \in 1..Len(toGw[k]) /\ toGw'[k][i] = toGw[k][i + d]
IsNew(k, i) == i = Len(toGw'[k]) /\ toGw'[k][i] \in UpSegment /\ NewSegment(k, toGw'[k][i])

LEMMA QueueStep ==
    ASSUME GatewayTypeOK, OnePerKey, [Next]_vars, NEW k \in Keys
    PROVE  \E d \in {0, 1} :
               \A i \in 1..Len(toGw'[k]) : toGw'[k][i].f \in Numbered =>
                   Was(k, i, d) \/ (d = 0 /\ IsNew(k, i))
  <1>1. UpStep(k) /\ toGw[k] \in Seq(UpSegment)
    BY StepOfUp, Numbers
  <1>2. CASE toGw'[k] = toGw[k]
    <2>1. \A i \in 1..Len(toGw'[k]) : Was(k, i, 0)
      BY <1>1, <1>2 DEF Was
    <2> QED BY <2>1
  <1>3. CASE toGw[k] # <<>> /\ toGw'[k] = Tail(toGw[k])
    <2>1. \A i \in 1..Len(toGw'[k]) : Was(k, i, 1)
      BY <1>1, <1>3 DEF Was
    <2> QED BY <2>1
  <1>4. ASSUME NEW s \in UpSegment, toGw'[k] = Append(toGw[k], s), NewSegment(k, s)
        PROVE  \A i \in 1..Len(toGw'[k]) : Was(k, i, 0) \/ IsNew(k, i)
    <2>1. /\ Len(toGw'[k]) = Len(toGw[k]) + 1 /\ Len(toGw[k]) \in Nat
          /\ toGw'[k][Len(toGw'[k])] = s
          /\ \A i \in 1..Len(toGw[k]) : toGw'[k][i] = toGw[k][i]
      BY <1>1, <1>4
    <2>2. IsNew(k, Len(toGw'[k]))
      BY <1>4, <2>1 DEF IsNew
    <2>3. \A i \in 1..Len(toGw[k]) : Was(k, i, 0)
      BY <2>1 DEF Was
    <2> QED BY <2>1, <2>2, <2>3
  <1>5. ASSUME NEW a \in UpSegment, a.f = "ACK", toGw[k] # <<>>,
               toGw'[k] = [toGw[k] EXCEPT ![Len(toGw[k])] = a]
        PROVE  \A i \in 1..Len(toGw'[k]) : toGw'[k][i].f \in Numbered => Was(k, i, 0)
    <2>1. /\ Len(toGw'[k]) = Len(toGw[k]) /\ Len(toGw[k]) \in Nat
          /\ toGw'[k][Len(toGw[k])] = a
          /\ \A i \in 1..Len(toGw[k]) : i # Len(toGw[k]) => toGw'[k][i] = toGw[k][i]
      BY <1>1, <1>5
    <2> QED BY <1>5, <2>1 DEF Was, Numbered
  <1>6. \/ toGw'[k] = toGw[k]
        \/ toGw[k] # <<>> /\ toGw'[k] = Tail(toGw[k])
        \/ \E s \in UpSegment : toGw'[k] = Append(toGw[k], s) /\ NewSegment(k, s)
        \/ \E a \in UpSegment : /\ a.f = "ACK" /\ toGw[k] # <<>>
                                /\ toGw'[k] = [toGw[k] EXCEPT ![Len(toGw[k])] = a]
    BY <1>1 DEF UpStep
  <1>7. CASE \E s \in UpSegment : toGw'[k] = Append(toGw[k], s) /\ NewSegment(k, s)
    BY <1>4, <1>7
  <1>8. CASE \E a \in UpSegment : /\ a.f = "ACK" /\ toGw[k] # <<>>
                                  /\ toGw'[k] = [toGw[k] EXCEPT ![Len(toGw[k])] = a]
    BY <1>5, <1>8
  <1> QED BY <1>2, <1>3, <1>6, <1>7, <1>8

\* The number of what a step adds is that of the use the program is in.
LEMMA NewIsCurrent ==
    ASSUME GatewayTypeOK, [Next]_vars, NEW k \in Keys, NEW s \in UpSegment,
           NewSegment(k, s), s.f \in Numbered
    PROVE  /\ s.seq[1] = client'[k].isn
           /\ s.f = "FIN" => client'[k].fin
  <1>1. /\ s.f \in {"SYN", "DATA", "FIN"}
        /\ s.seq[1] = client'[k].isn
    BY DEF NewSegment, Numbered, Quiet, NewClient
  <1>2. s.f = "FIN" => client'[k].fin
    BY Zenon DEF NewSegment, Quiet
  <1> QED BY <1>1, <1>2

LEMMA InitUp == Init => UpInv
  BY DEF Init, UpInv, InSequence, Closes, Begun

LEMMA UpInvStep ==
    ASSUME GatewayTypeOK, GatewayTypeOK', OnePerKey, UpInv, [Next]_vars
    PROVE  UpInv'
  <1> SUFFICES ASSUME NEW k \in Keys PROVE InSequence(k)' /\ Closes(k)'
    BY DEF UpInv
  <1>1. /\ client[k].isn \in Nat /\ client'[k].isn \in Nat
        /\ client'[k].isn >= client[k].isn
        /\ \A isn \in Nat : isn <= client[k].isn /\ Moved(k, isn) => Moved(k, isn)'
    BY ClientMovesOn, Numbers
  <1>2. InSequence(k) /\ Closes(k)
    BY DEF UpInv
  <1>3. /\ \A i \in 1..Len(toGw[k]) : toGw[k][i].seq[1] \in Nat
        /\ \A c \in Attempts : conn[c].isn \in Nat
        /\ toGw[k] \in Seq(UpSegment)
    BY Numbers
  <1>4. PICK d \in {0, 1} : \A i \in 1..Len(toGw'[k]) : toGw'[k][i].f \in Numbered =>
                               Was(k, i, d) \/ (d = 0 /\ IsNew(k, i))
    BY QueueStep
  <1>5. ASSUME NEW i \in 1..Len(toGw'[k]), toGw'[k][i].f \in Numbered
        PROVE  toGw'[k][i].seq[1] <= client'[k].isn
    <2>1. CASE Was(k, i, d)
      BY <1>1, <1>2, <1>3, <1>5, <2>1 DEF Was, InSequence
    <2>2. CASE IsNew(k, i)
      BY <1>1, <1>5, <2>2, NewIsCurrent DEF IsNew
    <2> QED BY <1>4, <1>5, <2>1, <2>2
  <1>6. ASSUME NEW i \in 1..Len(toGw'[k]), NEW j \in 1..Len(toGw'[k]), i < j,
               toGw'[k][i].f \in Numbered, toGw'[k][j].f \in Numbered
        PROVE  toGw'[k][i].seq[1] <= toGw'[k][j].seq[1]
    <2>1. ~IsNew(k, i)
      BY <1>6 DEF IsNew
    <2>2. Was(k, i, d)
      BY <1>4, <1>6, <2>1
    <2>3. CASE Was(k, j, d)
      <3>1. i + d < j + d
        BY <1>6
      <3> QED BY <1>2, <1>6, <2>2, <2>3, <3>1 DEF Was, InSequence
    <2>4. CASE IsNew(k, j)
      <3>1. toGw'[k][i].seq[1] <= client'[k].isn
        BY <1>5, <1>6
      <3> QED BY <1>6, <2>4, <3>1, NewIsCurrent DEF IsNew
    <2> QED BY <1>4, <1>6, <2>3, <2>4
  <1>7. ASSUME NEW c \in Attempts, conn[c].at # "unused", conn[c].key = k, SameName(c)
        PROVE  /\ conn'[c].isn <= client'[k].isn
               /\ \A i \in 1..Len(toGw'[k]) : toGw'[k][i].f \in Numbered =>
                      conn'[c].isn <= toGw'[k][i].seq[1]
    <2>1. Begun(c, k, conn[c].isn) /\ conn'[c].isn = conn[c].isn
      BY <1>7 DEF Begun, SameName
    <2>2. conn'[c].isn <= client[k].isn /\ conn'[c].isn \in Nat
      BY <1>2, <1>3, <2>1 DEF InSequence
    <2>3. conn'[c].isn <= client'[k].isn
      BY <1>1, <2>2
    <2>4. ASSUME NEW i \in 1..Len(toGw'[k]), toGw'[k][i].f \in Numbered
          PROVE  conn'[c].isn <= toGw'[k][i].seq[1]
      <3>1. CASE Was(k, i, d)
        BY <1>2, <2>1, <2>4, <3>1 DEF Was, InSequence
      <3>2. CASE IsNew(k, i)
        BY <2>3, <2>4, <3>2, NewIsCurrent DEF IsNew
      <3> QED BY <1>4, <2>4, <3>1, <3>2
    <2> QED BY <2>3, <2>4
  <1>8. ASSUME NEW c \in Attempts, Begins(c, k)
        PROVE  /\ conn'[c].isn <= client'[k].isn
               /\ \A i \in 1..Len(toGw'[k]) : toGw'[k][i].f \in Numbered =>
                      conn'[c].isn <= toGw'[k][i].seq[1]
    <2>1. /\ toGw[k] # <<>> /\ toGw[k][1].f = "SYN" /\ conn'[c].isn = toGw[k][1].seq[1]
          /\ 1 \in 1..Len(toGw[k])
          /\ \A i \in 1..Len(toGw'[k]) : /\ i + 1 \in 1..Len(toGw[k]) /\ 1 < i + 1
                                         /\ toGw'[k][i] = toGw[k][i + 1]
      BY <1>3, <1>8 DEF Begins, Reads
    <2>2. conn'[c].isn <= client[k].isn /\ conn'[c].isn \in Nat
      BY <1>2, <1>3, <2>1 DEF InSequence, Numbered
    <2>3. \A i \in 1..Len(toGw'[k]) : toGw'[k][i].f \in Numbered =>
              conn'[c].isn <= toGw'[k][i].seq[1]
      BY <1>2, <2>1 DEF InSequence, Numbered
    <2> QED BY <1>1, <2>2, <2>3
  <1>9. ASSUME NEW c \in Attempts, Begun(c, k, conn[c].isn)'
        PROVE  /\ conn'[c].isn <= client'[k].isn
               /\ \A i \in 1..Len(toGw'[k]) : toGw'[k][i].f \in Numbered =>
                      conn'[c].isn <= toGw'[k][i].seq[1]
    <2>1. conn'[c].at # "unused" /\ conn'[c].key = k
      BY <1>9 DEF Begun
    <2>2. CASE conn[c].at # "unused" /\ SameName(c)
      BY <1>7, <2>1, <2>2 DEF SameName
    <2>3. ASSUME NEW j \in Keys, Begins(c, j)
          PROVE j = k
      BY <2>1, <2>3 DEF Begins
    <2> QED BY <1>8, <2>1, <2>2, <2>3, NamesStay
  <1>10. InSequence(k)'
    BY <1>5, <1>6, <1>9 DEF InSequence
  <1>11. ASSUME NEW i \in 1..Len(toGw'[k]), toGw'[k][i].f = "FIN"
         PROVE  Moved(k, toGw[k][i].seq[1])'
    <2>1. toGw'[k][i].f \in Numbered
      BY <1>11 DEF Numbered
    <2>2. CASE Was(k, i, d)
      <3>1. PICK n : n = toGw'[k][i].seq[1]
        OBVIOUS
      <3>2. n \in Nat /\ n <= client[k].isn
        BY <1>2, <1>3, <1>11, <2>1, <2>2, <3>1 DEF Was, InSequence
      <3>3. Moved(k, n)
        BY <1>2, <1>11, <2>2, <3>1 DEF Was, Closes
      <3> QED BY <1>1, <3>1, <3>2, <3>3 DEF Moved
    <2>3. CASE IsNew(k, i)
      BY <1>11, <2>1, <2>3, NewIsCurrent DEF IsNew, Moved
    <2> QED BY <1>4, <2>1, <2>2, <2>3
  <1> QED BY <1>10, <1>11 DEF Closes

LEMMA UpInvariant == Spec => []UpInv
  BY InitUp, UpInvStep, GatewayTyped, OneRelayPerKey, PTL DEF Spec

-----------------------------------------------------------------------------
(* The end of the stream: DownInv is inductive.                            *)

\* What an attempt has been told by its host, and the two ends of it.
HostOf(c) ==
    /\ conn[c].at \in {"unused", "gating", "opening"} => conn[c].snext = 0
    /\ conn[c].snext = 0 => host[c].got = <<>>
    /\ conn[c].at = "up" => conn[c].snext > 0
    /\ host[c].shut => \/ conn[c].at = "ended"
                       \/ conn[c].at = "up" /\ Moved(conn[c].key, conn[c].isn)

\* Nothing is missing of what the host sent, up to the n-th unit.
AllSent(c, n) == \/ host[c].broken \/ host[c].sent = n
                 \/ Moved(conn[c].key, conn[c].isn)

OnWayDown(k, s) ==
    /\ s.f = "DATA" => /\ s.seq[1] \in Attempts /\ s.unit = s.seq[2]
                       /\ 1 <= s.seq[2] /\ s.seq[2] < conn[s.seq[1]].snext
    /\ s.f = "FIN" => /\ s.seq[1] \in Attempts /\ conn[s.seq[1]].at = "ended"
                      /\ conn[s.seq[1]].key = k
                      /\ conn[s.seq[1]].snext = s.seq[2] + 1
                      /\ AllSent(s.seq[1], s.seq[2] - 1)

Received(k) ==
    LET x == client[k] IN
    /\ x.st = "synsent" => x.got = <<>> /\ ~x.eof /\ ~x.fin
    /\ x.st = "established" => x.rcv > 0 /\ (~x.eof => x.got = [i \in 1..(x.rcv - 1) |-> i])
    /\ x.eof => /\ x.peer \in Attempts /\ conn[x.peer].at = "ended"
                /\ conn[x.peer].key = k /\ conn[x.peer].isn = x.isn
                /\ conn[x.peer].snext = x.rcv /\ x.rcv >= 2
                /\ x.got = [i \in 1..(x.rcv - 2) |-> i]
                /\ AllSent(x.peer, x.rcv - 2)

DownInv ==
    /\ \A c \in Attempts : HostOf(c)
    /\ \A k \in Keys : Received(k) /\ \A i \in 1..Len(toClient[k]) : OnWayDown(k, toClient[k][i])

LEMMA CountOn ==
    ASSUME NEW n \in Nat
    PROVE  Append([i \in 1..n |-> i], n + 1) = [i \in 1..(n + 1) |-> i]
  OBVIOUS

\* What only grows, and what an attempt that is over keeps.
LEMMA AttemptsMoveOn ==
    ASSUME GatewayTypeOK, OnePerKey, [Next]_vars, NEW c \in Attempts, HostOf(c)
    PROVE  /\ conn'[c].snext >= conn[c].snext
           /\ conn[c].at = "ended" => SameConn(c) /\ host'[c] = host[c]
           /\ conn[c].at # "unused" => SameName(c) /\ conn'[c].at # "unused"
  <1>1. AttemptStep(c) /\ conn[c].snext \in Nat
    BY StepOfConn, Numbers
  <1>2. conn'[c].snext >= conn[c].snext
    BY <1>1 DEF AttemptStep, SameConn, Begins, PassesUp, Shuts, Cut, Waits, Opens, PassesDown,
       Ends, HostTalks, HostOf
  <1>3. conn[c].at = "ended" => SameConn(c) /\ host'[c] = host[c]
    BY <1>1, Zenon DEF AttemptStep, Begins, PassesUp, Shuts, Cut, Waits, Opens, PassesDown,
       Ends, HostTalks
  <1>4. conn[c].at # "unused" => SameName(c) /\ conn'[c].at # "unused"
    BY <1>1 DEF AttemptStep, SameConn, Begins, PassesUp, Shuts, Cut, Waits, Opens, PassesDown,
       Ends, HostTalks, SameName
  <1> QED BY <1>2, <1>3, <1>4

\* That a program has closed its side of an attempt's use of the key is for good.
LEMMA MovedStays ==
    ASSUME GatewayTypeOK, OnePerKey, UpInv, [Next]_vars, NEW c \in Attempts, HostOf(c),
           conn[c].at # "unused", Moved(conn[c].key, conn[c].isn)
    PROVE  Moved(conn[c].key, conn[c].isn)'
  <1>1. PICK k \in Keys : k = conn[c].key
    BY Numbers
  <1>2. PICK n \in Nat : n = conn[c].isn
    BY Numbers
  <1>3. conn'[c].key = k /\ conn'[c].isn = n
    BY <1>1, <1>2, AttemptsMoveOn DEF SameName
  <1>4. n <= client[k].isn
    BY <1>1, <1>2 DEF UpInv, InSequence, Begun
  <1>5. Moved(k, n)
    BY <1>1, <1>2
  <1>6. Moved(k, n)'
    BY <1>4, <1>5, ClientMovesOn
  <1> QED BY <1>3, <1>6 DEF Moved

LEMMA AllSentStays ==
    ASSUME GatewayTypeOK, OnePerKey, UpInv, [Next]_vars, NEW c \in Attempts, HostOf(c),
           conn[c].at = "ended", NEW n, AllSent(c, n)
    PROVE  AllSent(c, n)'
  <1>1. host'[c] = host[c]
    BY AttemptsMoveOn
  <1>2. CASE Moved(conn[c].key, conn[c].isn)
    <2>1. Moved(conn[c].key, conn[c].isn)'
      BY <1>2, MovedStays
    <2> QED BY <2>1 DEF AllSent
  <1>3. CASE host[c].broken \/ host[c].sent = n
    BY <1>1, <1>3 DEF AllSent
  <1> QED BY <1>2, <1>3 DEF AllSent

\* host_writer is closed by a FIN of this use of the key, or the relay is over.
LEMMA HostOfStep ==
    ASSUME GatewayTypeOK, GatewayTypeOK', OnePerKey, UpInv, [Next]_vars,
           NEW c \in Attempts, HostOf(c)
    PROVE  HostOf(c)'
  <1>1. AttemptStep(c) /\ conn[c].snext \in Nat
    BY StepOfConn, Numbers
  <1>2. conn'[c].snext = 0 => host'[c].got = <<>>
    <2> SUFFICES ASSUME conn'[c].snext = 0 PROVE host'[c].got = <<>>
      OBVIOUS
    <2>1. CASE conn[c].snext = 0
      <3>1. conn[c].at # "up" /\ host[c].got = <<>>
        BY <2>1 DEF HostOf
      <3> QED BY <1>1, <3>1, Zenon DEF AttemptStep, Begins, PassesUp, Shuts, Cut, Waits, Opens,
                 PassesDown, Ends, HostTalks
    <2>2. CASE conn[c].snext # 0
      BY <1>1, <2>2, AttemptsMoveOn
    <2> QED BY <2>1, <2>2
  <1>3. CASE SameConn(c) /\ host'[c].shut = host[c].shut
    <2>1. host[c].shut /\ conn[c].at = "up" => Moved(conn[c].key, conn[c].isn)'
      BY MovedStays DEF HostOf
    <2> QED BY <1>3, <1>2, <2>1 DEF HostOf, SameConn
  <1>4. ASSUME NEW k \in Keys, Shuts(c, k) PROVE HostOf(c)'
    <2>1. PICK s : s = Head(toGw[k])
      OBVIOUS
    <2>2. /\ 1 \in 1..Len(toGw[k]) /\ toGw[k][1] = s /\ s.f = "FIN" /\ s.f \in Numbered
          /\ s.seq[1] \in Nat /\ conn[c].isn \in Nat
          /\ client[k].isn \in Nat
      BY <1>4, <2>1, Numbers DEF Shuts, Reads, Numbered
    <2>3. Begun(c, k, conn[c].isn)
      BY <1>4 DEF Shuts, Begun
    <2>4. conn[c].isn <= s.seq[1]
      BY <2>2, <2>3 DEF UpInv, InSequence
    <2>5. Moved(k, s.seq[1])
      BY <2>2 DEF UpInv, Closes
    <2>6. client[k].isn > s.seq[1] => client[k].isn > conn[c].isn
      BY <2>2, <2>4
    <2>7. Moved(conn[c].key, conn[c].isn)
      BY <1>4, <2>5, <2>6, Zenon DEF Moved, Shuts
    <2>8. Moved(conn[c].key, conn[c].isn)'
      BY <1>4, <2>7, MovedStays DEF Shuts
    <2> QED BY <1>4, <1>2, <2>8 DEF HostOf, Shuts, SameConn
  <1>5. CASE \/ \E k \in Keys : Begins(c, k) \/ Cut(c, k)
             \/ Waits(c) \/ Opens(c) \/ PassesDown(c) \/ Ends(c)
    <2>1. CASE \E k \in Keys : Begins(c, k) \/ Cut(c, k)
      BY <1>2, <2>1 DEF HostOf, Begins, Cut
    <2>2. CASE Waits(c) \/ Opens(c) \/ Ends(c)
      BY <1>2, <2>2 DEF HostOf, Waits, Opens, Ends
    <2>3. CASE PassesDown(c)
      <3>1. host[c].shut => Moved(conn[c].key, conn[c].isn)'
        BY <2>3, MovedStays DEF HostOf, PassesDown
      <3> QED BY <1>1, <1>2, <2>3, <3>1 DEF HostOf, PassesDown
    <2> QED BY <1>5, <2>1, <2>2, <2>3
  <1>6. \A k \in Keys : PassesUp(c, k) => SameConn(c) /\ host'[c].shut = host[c].shut
    BY DEF PassesUp
  <1>7. HostTalks(c) => SameConn(c) /\ host'[c].shut = host[c].shut
    BY DEF HostTalks
  <1> QED BY <1>1, <1>3, <1>4, <1>5, <1>6, <1>7 DEF AttemptStep

LEMMA OnWayDownStep ==
    ASSUME GatewayTypeOK, GatewayTypeOK', OnePerKey, UpInv, DownInv, [Next]_vars,
           NEW k \in Keys, NEW i \in 1..Len(toClient'[k])
    PROVE  OnWayDown(k, toClient[k][i])'
  <1>1. PICK s : s = toClient'[k][i]
    OBVIOUS
  <1>2. SUFFICES OnWayDown(k, s)'
    BY <1>1
  <1>3. CASE \E j \in 1..Len(toClient[k]) : s = toClient[k][j]
    <2>1. OnWayDown(k, s) /\ s \in DownSegment
      BY <1>3, Numbers DEF DownInv
    <2>2. s.seq[2] \in Nat
      BY <2>1 DEF DownSegment, SeqNo
    <2>3. s.f = "DATA" => /\ s.seq[1] \in Attempts /\ s.unit = s.seq[2]
                          /\ 1 <= s.seq[2] /\ s.seq[2] < conn'[s.seq[1]].snext
      <3> SUFFICES ASSUME s.f = "DATA" PROVE s.seq[2] < conn'[s.seq[1]].snext
        BY <2>1 DEF OnWayDown
      <3>1. PICK c \in Attempts : c = s.seq[1]
        BY <2>1 DEF OnWayDown
      <3>2. HostOf(c) /\ s.seq[2] < conn[c].snext
        BY <2>1, <3>1 DEF OnWayDown, DownInv
      <3>3. conn'[c].snext >= conn[c].snext /\ conn[c].snext \in Nat /\ conn'[c].snext \in Nat
        BY <3>2, AttemptsMoveOn, Numbers DEF GatewayTypeOK, Attempt
      <3> QED BY <2>2, <3>1, <3>2, <3>3
    <2>4. ASSUME s.f = "FIN"
          PROVE  /\ s.seq[1] \in Attempts /\ conn'[s.seq[1]].at = "ended"
                 /\ conn'[s.seq[1]].key = k
                 /\ conn'[s.seq[1]].snext = s.seq[2] + 1
                 /\ AllSent(s.seq[1], s.seq[2] - 1)'
      <3>1. PICK c \in Attempts : c = s.seq[1]
        BY <2>1, <2>4 DEF OnWayDown
      <3>2. /\ HostOf(c) /\ conn[c].at = "ended" /\ conn[c].key = k
            /\ conn[c].snext = s.seq[2] + 1 /\ AllSent(c, s.seq[2] - 1)
        BY <2>1, <2>4, <3>1 DEF OnWayDown, DownInv
      <3>3. SameConn(c)
        BY <3>2, AttemptsMoveOn
      <3>4. AllSent(c, s.seq[2] - 1)'
        BY <3>2, AllSentStays
      <3> QED BY <3>1, <3>2, <3>3, <3>4 DEF SameConn
    <2> QED BY <2>3, <2>4 DEF OnWayDown
  <1>4. CASE NewDown(k, s)
    <2>1. ASSUME s.f = "DATA"
          PROVE  /\ s.seq[1] \in Attempts /\ s.unit = s.seq[2]
                 /\ 1 <= s.seq[2] /\ s.seq[2] < conn'[s.seq[1]].snext
      <3>1. PICK c \in Attempts : /\ conn[c].key = k /\ PassesDown(c)
                                  /\ s.seq = <<c, conn[c].snext>> /\ s.unit = conn[c].snext
        BY <1>4, <2>1 DEF NewDown
      <3>2. HostOf(c) /\ conn[c].snext \in Nat
        BY Numbers DEF DownInv
      <3>3. conn[c].snext > 0 /\ conn'[c].snext = conn[c].snext + 1
        BY <3>1, <3>2 DEF HostOf, PassesDown
      <3> QED BY <3>1, <3>2, <3>3
    <2>2. ASSUME s.f = "FIN"
          PROVE  /\ s.seq[1] \in Attempts /\ conn'[s.seq[1]].at = "ended"
                 /\ conn'[s.seq[1]].key = k
                 /\ conn'[s.seq[1]].snext = s.seq[2] + 1
                 /\ AllSent(s.seq[1], s.seq[2] - 1)'
      <3>1. PICK c \in Attempts : /\ conn[c].key = k /\ Ends(c)
                                  /\ s.seq = <<c, conn[c].snext>>
        BY <1>4, <2>2 DEF NewDown
      <3>2. HostOf(c)
        BY DEF DownInv
      <3>3. AllSent(c, conn[c].snext - 1)
        BY <3>1, <3>2 DEF HostOf, Ends, AllSent
      <3>4. AllSent(c, s.seq[2] - 1)'
        <4>1. host'[c] = host[c] /\ s.seq[2] = conn[c].snext
          BY <3>1 DEF Ends
        <4>2. CASE Moved(conn[c].key, conn[c].isn)
          <5>1. Moved(conn[c].key, conn[c].isn)'
            BY <3>1, <3>2, <4>2, MovedStays DEF Ends
          <5> QED BY <5>1 DEF AllSent
        <4>3. CASE host[c].broken \/ host[c].sent = conn[c].snext - 1
          BY <4>1, <4>3 DEF AllSent
        <4> QED BY <3>3, <4>2, <4>3 DEF AllSent
      <3> QED BY <3>1, <3>4 DEF Ends, SameName
    <2> QED BY <2>1, <2>2 DEF OnWayDown
  <1> QED BY <1>1, <1>3, <1>4, DownQueueStep

\* The end of the stream that a program has seen is still that of its attempt.
LEMMA EndSeenStays ==
    ASSUME GatewayTypeOK, OnePerKey, UpInv, DownInv, [Next]_vars, NEW k \in Keys,
           client[k].eof,
           client'[k].peer = client[k].peer, client'[k].isn = client[k].isn,
           client'[k].rcv = client[k].rcv, client'[k].got = client[k].got
    PROVE  LET x == client'[k] IN
           /\ x.peer \in Attempts /\ conn'[x.peer].at = "ended"
           /\ conn'[x.peer].key = k /\ conn'[x.peer].isn = x.isn
           /\ conn'[x.peer].snext = x.rcv /\ x.rcv >= 2
           /\ x.got = [i \in 1..(x.rcv - 2) |-> i]
           /\ AllSent(client[k].peer, client[k].rcv - 2)'
  <1>1. /\ client[k].peer \in Attempts /\ conn[client[k].peer].at = "ended"
        /\ conn[client[k].peer].key = k /\ conn[client[k].peer].isn = client[k].isn
        /\ conn[client[k].peer].snext = client[k].rcv /\ client[k].rcv >= 2
        /\ client[k].got = [i \in 1..(client[k].rcv - 2) |-> i]
        /\ AllSent(client[k].peer, client[k].rcv - 2)
    BY DEF DownInv, Received
  <1>2. PICK c \in Attempts : c = client[k].peer
    BY <1>1
  <1>3. PICK n : n = client[k].rcv - 2
    OBVIOUS
  <1>4. HostOf(c) /\ conn[c].at = "ended" /\ AllSent(c, n)
    BY <1>1, <1>2, <1>3 DEF DownInv
  <1>5. SameConn(c) /\ AllSent(c, n)'
    BY <1>4, AttemptsMoveOn, AllSentStays
  <1>6. AllSent(client[k].peer, client[k].rcv - 2)'
    BY <1>2, <1>3, <1>5
  <1> QED BY <1>1, <1>2, <1>5, <1>6 DEF SameConn

\* The segment that a program takes, and the one it waits for.
NextIs(k, s, n, c) ==
    /\ s = Head(toClient[k]) /\ n \in Nat /\ n = client[k].rcv /\ c = client[k].peer
    /\ OnWayDown(k, s) /\ s.seq = <<c, n>> /\ s.f \in {"DATA", "FIN"}
    /\ c \in Attempts /\ conn[c].key = k /\ conn[c].isn = client[k].isn /\ HostOf(c)
    /\ n > 0 /\ ~client[k].eof /\ client[k].got = [i \in 1..(n - 1) |-> i]

LEMMA NextUnit ==
    ASSUME GatewayTypeOK, PairedInv, DownInv, NEW k \in Keys, Gets(k)
    PROVE  \E s, n, c : NextIs(k, s, n, c)
  <1>1. Received(k) /\ client[k].rcv \in Nat /\ toClient[k] \in Seq(DownSegment)
    BY Numbers DEF DownInv
  <1>2. PICK s : s = Head(toClient[k])
    OBVIOUS
  <1>3. PICK n \in Nat : n = client[k].rcv
    BY <1>1
  <1>4. PICK c : c = client[k].peer
    OBVIOUS
  <1>5. 1 \in 1..Len(toClient[k]) /\ toClient[k][1] = s
    BY <1>1, <1>2 DEF Gets
  <1>6. OnWayDown(k, s) /\ s.seq = <<c, n>> /\ s.f \in {"DATA", "FIN"}
    BY <1>2, <1>3, <1>4, <1>5 DEF Gets, DownInv
  <1>7. /\ c \in Attempts /\ conn[c].key = k /\ conn[c].isn = client[k].isn
        /\ conn[c].snext \in Nat /\ HostOf(c)
    BY <1>4, Numbers DEF Gets, PairedInv, Begun, DownInv
  <1>8. n > 0
    BY <1>1, <1>3 DEF Gets, Received
  <1>9. n < conn[c].snext
    BY <1>6, <1>7 DEF OnWayDown
  <1>10. ~client[k].eof
    BY <1>1, <1>3, <1>4, <1>7, <1>9 DEF Received
  <1>11. client[k].got = [i \in 1..(n - 1) |-> i]
    BY <1>1, <1>3, <1>10 DEF Gets, Received
  <1> QED BY <1>2, <1>3, <1>4, <1>6, <1>7, <1>8, <1>10, <1>11 DEF NextIs

LEMMA ReceivedStep ==
    ASSUME GatewayTypeOK, GatewayTypeOK', OnePerKey, PairedInv, UpInv, DownInv, [Next]_vars,
           NEW k \in Keys
    PROVE  Received(k)'
  <1>1. ClientStep(k) /\ Received(k)
    BY StepOfReader DEF DownInv
  <1>2. /\ client[k].rcv \in Nat /\ client[k].eof \in BOOLEAN /\ client[k].fin \in BOOLEAN
        /\ client'[k].eof \in BOOLEAN /\ client'[k].fin \in BOOLEAN
        /\ toClient[k] \in Seq(DownSegment)
    BY Numbers DEF GatewayTypeOK, ClientEnd
  <1>3. CASE Holds(k)
    <2>1. client'[k].eof => client[k].eof
      BY <1>3 DEF Holds
    <2>2. client'[k].st = "synsent" =>
              client'[k].got = <<>> /\ ~client'[k].eof /\ ~client'[k].fin
      BY <1>1, <1>2, <1>3 DEF Holds, Received
    <2>3. client'[k].st = "established" =>
              /\ client'[k].rcv > 0
              /\ ~client'[k].eof => client'[k].got = [i \in 1..(client'[k].rcv - 1) |-> i]
      BY <1>1, <1>3 DEF Holds, Received
    <2>4. CASE client'[k].eof
      BY <1>3, <2>1, <2>2, <2>3, <2>4, EndSeenStays DEF Holds, Received
    <2>5. CASE ~client'[k].eof
      BY <2>2, <2>3, <2>5 DEF Received
    <2> QED BY <2>4, <2>5
  <1>4. CASE Joins(k)
    <2>1. /\ client'[k].st = "established" /\ client'[k].rcv = 1
          /\ client'[k].got = <<>> /\ ~client'[k].eof
      BY <1>1, <1>4 DEF Joins, Received
    <2>2. <<>> = [i \in 1..(1 - 1) |-> i]
      OBVIOUS
    <2> QED BY <2>1, <2>2 DEF Received
  <1>5. CASE Gets(k)
    <2>1. PICK n \in Nat : \E s, c : NextIs(k, s, n, c)
      BY <1>5, NextUnit DEF NextIs
    <2>2. PICK s, c : NextIs(k, s, n, c)
      BY <2>1
    <2>3. /\ s = Head(toClient[k]) /\ n \in Nat /\ n = client[k].rcv /\ c = client[k].peer
          /\ OnWayDown(k, s) /\ s.seq = <<c, n>> /\ s.f \in {"DATA", "FIN"}
          /\ c \in Attempts /\ conn[c].key = k /\ conn[c].isn = client[k].isn /\ HostOf(c)
          /\ n > 0 /\ ~client[k].eof /\ client[k].got = [i \in 1..(n - 1) |-> i]
      BY <2>2 DEF NextIs
    <2>4. /\ client'[k].st = "established" /\ client'[k].rcv = n + 1
          /\ client'[k].isn = client[k].isn /\ client'[k].peer = c
      BY <1>5, <2>3 DEF Gets
    <2>5. CASE s.f = "DATA"
      <3>1. s.unit = n
        BY <2>3, <2>5 DEF OnWayDown
      <3>2. client'[k].got = Append(client[k].got, n) /\ ~client'[k].eof
        BY <1>5, <2>3, <2>5, <3>1 DEF Gets
      <3>3. Append([i \in 1..(n - 1) |-> i], (n - 1) + 1) = [i \in 1..((n - 1) + 1) |-> i]
        BY <2>3, CountOn
      <3>4. client'[k].got = [i \in 1..n |-> i]
        <4>1. (n - 1) + 1 = n
          OBVIOUS
        <4> QED BY <2>3, <3>2, <3>3, <4>1
      <3> QED BY <2>4, <3>2, <3>4 DEF Received
    <2>6. CASE s.f = "FIN"
      <3>1. conn[c].at = "ended" /\ conn[c].snext = n + 1 /\ AllSent(c, n - 1)
        BY <2>3, <2>6 DEF OnWayDown
      <3>2. client'[k].got = [i \in 1..(n - 1) |-> i] /\ client'[k].eof
        BY <1>5, <2>3, <2>6 DEF Gets
      <3>3. SameConn(c) /\ AllSent(c, n - 1)'
        BY <2>3, <3>1, AttemptsMoveOn, AllSentStays
      <3>4. AllSent(client[k].peer, client[k].rcv - 2)'
        BY <2>4, <3>3
      <3>5. n + 1 >= 2 /\ (n + 1) - 2 = n - 1
        BY <2>3
      <3> QED BY <2>3, <2>4, <3>1, <3>2, <3>3, <3>4, <3>5 DEF Received, SameConn
    <2> QED BY <2>3, <2>5, <2>6
  <1>6. CASE client'[k] = NewClient("synsent", client[k].isn + 1)
    BY <1>6 DEF Received, NewClient
  <1> QED BY <1>1, <1>3, <1>4, <1>5, <1>6 DEF ClientStep

LEMMA InitDown == Init => DownInv
  BY DEF Init, DownInv, HostOf, Received, NewClient

LEMMA DownInvStep ==
    ASSUME GatewayTypeOK, GatewayTypeOK', OnePerKey, PairedInv, UpInv, DownInv, [Next]_vars
    PROVE  DownInv'
  <1>1. \A c \in Attempts : HostOf(c)'
    BY HostOfStep DEF DownInv
  <1>2. \A k \in Keys : Received(k)'
    BY ReceivedStep
  <1>3. \A k \in Keys : \A i \in 1..Len(toClient'[k]) : OnWayDown(k, toClient[k][i])'
    BY OnWayDownStep
  <1> QED BY <1>1, <1>2, <1>3 DEF DownInv

LEMMA EofOfDown == GatewayTypeOK /\ DownInv => EofMeansAll
  <1> SUFFICES ASSUME GatewayTypeOK, DownInv, NEW k \in Keys,
                      client[k].eof, ~client[k].fin, ~host[client[k].peer].broken
               PROVE  client[k].got = [i \in 1..host[client[k].peer].sent |-> i]
    BY DEF EofMeansAll
  <1>1. PICK c : c = client[k].peer
    OBVIOUS
  <1>2. /\ conn[c].key = k /\ conn[c].isn = client[k].isn
        /\ client[k].got = [i \in 1..(client[k].rcv - 2) |-> i]
        /\ AllSent(c, client[k].rcv - 2)
    BY <1>1 DEF DownInv, Received
  <1>3. ~(client[k].isn > client[k].isn)
    BY Numbers
  <1> QED BY <1>1, <1>2, <1>3 DEF AllSent, Moved

LEMMA DownInvariant == Spec => []DownInv
  <1>1. DownInv /\ (GatewayTypeOK /\ GatewayTypeOK' /\ OnePerKey /\ PairedInv /\ UpInv)
            /\ [Next]_vars => DownInv'
    BY DownInvStep
  <1> QED BY <1>1, InitDown, UpInvariant, PairedInvariant, GatewayTyped, OneRelayPerKey, PTL
         DEF Spec

\* EofMeansAll: a program that sees the end of the stream has got all of it.
THEOREM EndOfStreamIsAll == Spec => []EofMeansAll
  BY EofOfDown, DownInvariant, GatewayTyped, PTL

-----------------------------------------------------------------------------
(* Who may write: ReachInv is inductive.                                   *)

Answered(k, isn) == \E c \in Attempts : Reached(c, k, isn)

ReachInv ==
    \A k \in Keys :
        /\ \A i \in 1..Len(toGw[k]) : toGw[k][i].f \in {"DATA", "FIN"} =>
               Answered(k, toGw[k][i].seq[1])
        /\ client[k].st = "established" \/ client[k].snd > 1 => Answered(k, client[k].isn)
        /\ \A i \in 1..Len(toClient[k]) : toClient[k][i].f = "SYNACK" =>
               Answered(k, toClient[k][i].ack[1])
        /\ client[k].snd >= 1
        /\ client[k].st = "synsent" => client[k].snd = 1
        /\ \A c, d \in Attempts : InUse(c) /\ conn[c].key = k /\ Begun(d, k, conn[d].isn) =>
               conn[d].isn <= conn[c].isn

\* What a step makes of the numbers of a program.
LEMMA ProgramStep ==
    ASSUME GatewayTypeOK, OnePerKey, [Next]_vars, NEW k \in Keys
    PROVE  \/ Quiet(k)
           \/ /\ client[k].st = "established" /\ ~client[k].fin
              /\ client'[k].isn = client[k].isn /\ client'[k].snd = client[k].snd + 1
              /\ client[k].snd <= MaxUp \/ client'[k].fin
           \/ client'[k] = NewClient("synsent", client[k].isn + 1)
  BY StepOfUp, Zenon DEF UpStep, NewSegment

LEMMA AnsweredStays ==
    ASSUME GatewayTypeOK, GatewayTypeOK', OnePerKey, DownInv, [Next]_vars,
           NEW k, NEW isn, Answered(k, isn)
    PROVE  Answered(k, isn)'
  <1>1. PICK c \in Attempts : Reached(c, k, isn)
    BY DEF Answered
  <1>2. HostOf(c) /\ conn[c].snext \in Nat /\ conn'[c].snext \in Nat
    BY Numbers DEF DownInv, GatewayTypeOK, Attempt
  <1>3. conn[c].at # "unused" /\ conn[c].snext > 0
    BY <1>1, <1>2 DEF Reached, HostOf
  <1>4. SameName(c) /\ conn'[c].snext > 0
    BY <1>2, <1>3, AttemptsMoveOn
  <1>5. Reached(c, k, isn)'
    BY <1>1, <1>4 DEF Reached, SameName
  <1> QED BY <1>5 DEF Answered

\* The parts of ReachInv.
Replies(k) ==
    /\ \A i \in 1..Len(toGw[k]) : toGw[k][i].f \in {"DATA", "FIN"} =>
           Answered(k, toGw[k][i].seq[1])
    /\ client[k].st = "established" \/ client[k].snd > 1 => Answered(k, client[k].isn)
    /\ \A i \in 1..Len(toClient[k]) : toClient[k][i].f = "SYNACK" =>
           Answered(k, toClient[k][i].ack[1])
    /\ client[k].snd >= 1
    /\ client[k].st = "synsent" => client[k].snd = 1

LatestInUse(k) ==
    \A c, d \in Attempts : InUse(c) /\ conn[c].key = k /\ Begun(d, k, conn[d].isn) =>
        conn[d].isn <= conn[c].isn

LEMMA ReachSplit == ReachInv <=> \A k \in Keys : Replies(k) /\ LatestInUse(k)
  BY DEF ReachInv, Replies, LatestInUse

LEMMA RepliesStep ==
    ASSUME GatewayTypeOK, GatewayTypeOK', OnePerKey, DownInv, [Next]_vars,
           NEW k \in Keys, Replies(k)
    PROVE  Replies(k)'
  <1>1. /\ client[k].snd \in Nat /\ client[k].st \in ClientState
        /\ ClientStep(k)
    BY Numbers, StepOfReader
  <1>2. client'[k].snd >= 1 /\ (client'[k].st = "synsent" => client'[k].snd = 1)
    <2>1. client'[k].st = "synsent" => client[k].st = "synsent" \/
              client'[k] = NewClient("synsent", client[k].isn + 1)
      BY <1>1 DEF ClientStep, Holds, Joins, Gets
    <2>2. client'[k] = NewClient("synsent", client[k].isn + 1) => client'[k].snd = 1
      BY DEF NewClient
    <2> QED BY <1>1, <2>1, <2>2, ProgramStep DEF Quiet, Replies
  <1>3. ASSUME client'[k].st = "established" \/ client'[k].snd > 1
        PROVE  Answered(k, client[k].isn)'
    <2>1. client'[k] # NewClient("synsent", client[k].isn + 1)
      BY <1>3 DEF NewClient
    <2>2. client'[k].isn = client[k].isn
      BY <2>1, ProgramStep DEF Quiet
    <2>3. Answered(k, client[k].isn)
      <3>1. CASE client[k].st = "established" \/ client[k].snd > 1
        BY <3>1 DEF Replies
      <3>2. CASE ~(client[k].st = "established" \/ client[k].snd > 1)
        <4>1. client'[k].snd = client[k].snd
          BY <2>1, <3>2, ProgramStep DEF Quiet
        <4>2. Joins(k)
          BY <1>1, <1>3, <2>1, <3>2, <4>1 DEF ClientStep, Holds, Gets
        <4>3. 1 \in 1..Len(toClient[k]) /\ toClient[k][1] = Head(toClient[k])
          BY <4>2, Numbers DEF Joins
        <4> QED BY <4>2, <4>3 DEF Joins, Replies
      <3> QED BY <3>1, <3>2
    <2>4. PICK n : n = client[k].isn
      OBVIOUS
    <2>5. Answered(k, n)'
      BY <2>3, <2>4, AnsweredStays
    <2> QED BY <2>2, <2>4, <2>5 DEF Answered, Reached
  <1>4. ASSUME NEW i \in 1..Len(toGw'[k]), toGw'[k][i].f \in {"DATA", "FIN"}
        PROVE  Answered(k, toGw[k][i].seq[1])'
    <2>1. toGw'[k][i].f \in Numbered
      BY <1>4 DEF Numbered
    <2>2. PICK n : n = toGw'[k][i].seq[1]
      OBVIOUS
    <2>3. CASE \E d \in {0, 1} : Was(k, i, d)
      <3>1. Answered(k, n)
        BY <1>4, <2>2, <2>3 DEF Was, Replies
      <3>2. Answered(k, n)'
        BY <3>1, AnsweredStays
      <3> QED BY <2>2, <3>2 DEF Answered, Reached
    <2>4. CASE IsNew(k, i)
      <3>1. client[k].st = "established" /\ n = client[k].isn
        BY <1>4, <2>2, <2>4 DEF IsNew, NewSegment
      <3>2. Answered(k, n)
        BY <3>1 DEF Replies
      <3>3. Answered(k, n)'
        BY <3>2, AnsweredStays
      <3> QED BY <2>2, <3>3 DEF Answered, Reached
    <2> QED BY <2>1, <2>3, <2>4, QueueStep
  <1>5. ASSUME NEW i \in 1..Len(toClient'[k]), toClient'[k][i].f = "SYNACK"
        PROVE  Answered(k, toClient[k][i].ack[1])'
    <2>1. PICK s : s = toClient'[k][i]
      OBVIOUS
    <2>2. CASE \E j \in 1..Len(toClient[k]) : s = toClient[k][j]
      <3>1. PICK n : n = s.ack[1]
        OBVIOUS
      <3>2. Answered(k, n)
        BY <1>5, <2>1, <2>2, <3>1 DEF Replies
      <3>3. Answered(k, n)'
        BY <3>2, AnsweredStays
      <3> QED BY <2>1, <3>1, <3>3 DEF Answered, Reached
    <2>3. CASE NewDown(k, s)
      <3>1. PICK c \in Attempts :
               /\ s.ack = <<conn[c].isn, 1>> /\ conn[c].key = k
               /\ (SameConn(c) /\ conn[c].at = "up") \/ Opens(c)
        BY <1>5, <2>1, <2>3 DEF NewDown
      <3>2. conn'[c].snext > 0
        BY <3>1 DEF DownInv, HostOf, SameConn, Opens
      <3>3. Reached(c, k, s.ack[1])'
        BY <3>1, <3>2 DEF Reached, SameConn, SameName, Opens
      <3>4. Reached(c, k, toClient[k][i].ack[1])'
        BY <2>1, <3>3 DEF Reached
      <3> QED BY <3>4 DEF Answered
    <2> QED BY <2>1, <2>2, <2>3, DownQueueStep
  <1> QED BY <1>2, <1>3, <1>4, <1>5 DEF Replies

LEMMA LatestStep ==
    ASSUME GatewayTypeOK, OnePerKey, OnePerKey', UpInv, DownInv, [Next]_vars,
           NEW k \in Keys, LatestInUse(k)
    PROVE  LatestInUse(k)'
  <1> SUFFICES ASSUME NEW c \in Attempts, NEW d \in Attempts,
                      InUse(c)', conn'[c].key = k, Begun(d, k, conn[d].isn)'
               PROVE  conn'[d].isn <= conn'[c].isn
    BY DEF LatestInUse
  <1>1. /\ conn'[d].at # "unused" /\ conn'[d].key = k
        /\ conn'[c].at \in {"gating", "opening", "up"}
        /\ conn[c].isn \in Nat /\ conn[d].isn \in Nat
    BY Numbers DEF Begun, InUse
  <1>2. \A e \in Attempts : InUse(e)' /\ conn'[e].key = k => e = c
    BY DEF OnePerKey
  <1>3. \/ InUse(c) /\ SameName(c)
        \/ Begins(c, k)
    <2>1. AttemptStep(c)
      BY StepOfConn
    <2>2. ASSUME NEW j \in Keys, Begins(c, j) PROVE j = k
      BY <2>2 DEF Begins
    <2>3. \/ conn[c].at \in {"gating", "opening", "up"} /\ SameName(c)
          \/ \E j \in Keys : Begins(c, j)
      BY <1>1, <2>1 DEF AttemptStep, SameConn, SameName, PassesUp, Shuts, Cut, Waits, Opens,
         PassesDown, Ends, HostTalks
    <2> QED BY <2>2, <2>3 DEF InUse
  <1>4. \/ Begun(d, k, conn[d].isn) /\ SameName(d)
        \/ Begins(d, k)
    <2>1. ASSUME NEW j \in Keys, Begins(d, j) PROVE j = k
      BY <1>1, <2>1 DEF Begins
    <2> QED BY <1>1, <2>1, NamesStay DEF Begun, SameName
  <1>5. CASE Begins(d, k)
    <2>1. InUse(d)'
      BY <1>5 DEF Begins, InUse
    <2>2. d = c
      BY <1>1, <1>2, <2>1
    <2>3. conn'[c].isn \in Nat
      <3>1. Head(toGw[k]) = toGw[k][1] /\ 1 \in 1..Len(toGw[k])
        BY <1>5, Numbers DEF Begins, Reads
      <3> QED BY <1>5, <2>2, <3>1, Numbers DEF Begins
    <2> QED BY <2>2, <2>3
  <1>6. CASE Begun(d, k, conn[d].isn) /\ SameName(d) /\ InUse(c) /\ SameName(c)
    BY <1>6 DEF LatestInUse, SameName
  <1>7. CASE Begun(d, k, conn[d].isn) /\ SameName(d) /\ Begins(c, k)
    <2>1. /\ Head(toGw[k]) = toGw[k][1] /\ 1 \in 1..Len(toGw[k])
          /\ toGw[k][1].f \in Numbered
      BY <1>7, Numbers DEF Begins, Reads, Numbered
    <2>2. conn[d].isn <= toGw[k][1].seq[1]
      BY <1>7, <2>1 DEF UpInv, InSequence
    <2> QED BY <1>7, <2>1, <2>2 DEF Begins, SameName
  <1> QED BY <1>3, <1>4, <1>5, <1>6, <1>7

LEMMA InitReach == Init => ReachInv
  BY DEF Init, ReachInv, Answered, NewClient, InUse

LEMMA ReachInvStep ==
    ASSUME GatewayTypeOK, GatewayTypeOK', OnePerKey, OnePerKey', UpInv, DownInv, ReachInv,
           [Next]_vars
    PROVE  ReachInv'
  <1>1. \A k \in Keys : Replies(k)' /\ LatestInUse(k)'
    BY ReachSplit, RepliesStep, LatestStep
  <1> QED BY <1>1 DEF ReachInv, Replies, LatestInUse

LEMMA ReachInvariant == Spec => []ReachInv
  BY InitReach, ReachInvStep, UpInvariant, DownInvariant, GatewayTyped, OneRelayPerKey, PTL
     DEF Spec

-----------------------------------------------------------------------------
(* What the host gets: OrderInv is inductive.                              *)

\* The segments of a key's queue that on_data hands on or closes the host's side
\* with, and their places in the stream.
InStream(k) == {i \in 1..Len(toGw[k]) : toGw[k][i].f \in {"DATA", "FIN"}}
Unread(k) == {toGw[k][i].seq[2] : i \in InStream(k)}
Ordered(k) == \A i, j \in InStream(k) : i < j => toGw[k][i].seq[2] < toGw[k][j].seq[2]

\* Of use isn of a key all units after the n-th wait, in order.
InLine(k, isn, n) ==
    /\ Ordered(k)
    /\ \A v \in Unread(k) : v > n /\ (n + 1)..v \subseteq Unread(k)
    /\ client[k].isn = isn => n < client[k].snd /\ Unread(k) = (n + 1)..(client[k].snd - 1)

\* The host has got the first units, and those that follow wait.
InOrderOf(c) ==
    /\ host[c].got = [i \in 1..Len(host[c].got) |-> <<conn[c].isn, i>>]
    /\ conn[c].at = "up" /\ ~host[c].shut =>
           InLine(conn[c].key, conn[c].isn, Len(host[c].got))
OrderInv == faults = 0 => \A c \in Attempts : ~Twice(c) => InOrderOf(c)

\* Nothing that the host would see leaves or joins the queue.
LEMMA StreamKept ==
    ASSUME GatewayTypeOK, NEW k \in Keys, NEW d \in {0, 1},
           \A i \in InStream(k)' : Was(k, i, d),
           \A m \in InStream(k) : m - d \in 1..Len(toGw'[k]) /\ toGw'[k][m - d] = toGw[k][m]
    PROVE  /\ Unread(k)' = Unread(k)
           /\ Ordered(k) => Ordered(k)'
  <1>1. \A i \in InStream(k)' : i + d \in InStream(k) /\ toGw'[k][i].seq[2] = toGw[k][i + d].seq[2]
    BY DEF Was, InStream
  <1>2. \A m \in InStream(k) : m - d \in InStream(k)' /\ toGw'[k][m - d].seq[2] = toGw[k][m].seq[2]
    BY DEF InStream
  <1>3. Unread(k)' = Unread(k)
    BY <1>1, <1>2 DEF Unread
  <1>4. ASSUME Ordered(k), NEW i \in InStream(k)', NEW j \in InStream(k)', i < j
        PROVE  toGw'[k][i].seq[2] < toGw'[k][j].seq[2]
    <2>1. i + d < j + d
      BY <1>4 DEF InStream
    <2> QED BY <1>1, <1>4, <2>1 DEF Ordered
  <1> QED BY <1>3, <1>4 DEF Ordered

\* The program adds the next of its stream.
LEMMA StreamGrows ==
    ASSUME GatewayTypeOK, NEW k \in Keys, NEW s \in UpSegment, s.f \in {"DATA", "FIN"},
           toGw'[k] = Append(toGw[k], s)
    PROVE  /\ Unread(k)' = Unread(k) \cup {s.seq[2]}
           /\ Ordered(k) /\ (\A v \in Unread(k) : v < s.seq[2]) => Ordered(k)'
  <1>1. toGw[k] \in Seq(UpSegment)
    BY Numbers
  <1>2. PICK n \in Nat : n = Len(toGw[k])
    BY <1>1
  <1>3. /\ Len(toGw'[k]) = n + 1 /\ toGw'[k][n + 1] = s
        /\ \A i \in 1..n : toGw'[k][i] = toGw[k][i]
    BY <1>1, <1>2
  <1>4. /\ InStream(k)' = InStream(k) \cup {n + 1}
        /\ \A i \in InStream(k) : i \in 1..n /\ toGw'[k][i] = toGw[k][i]
    <2>1. \A i : i \in 1..(n + 1) <=> i \in 1..n \/ i = n + 1
      OBVIOUS
    <2> QED BY <1>2, <1>3, <2>1 DEF InStream
  <1>5. Unread(k)' = Unread(k) \cup {s.seq[2]}
    BY <1>3, <1>4 DEF Unread
  <1>6. ASSUME Ordered(k), \A v \in Unread(k) : v < s.seq[2],
               NEW i \in InStream(k)', NEW j \in InStream(k)', i < j
        PROVE  toGw'[k][i].seq[2] < toGw'[k][j].seq[2]
    <2>1. i \in InStream(k)
      BY <1>4, <1>6
    <2>2. CASE j \in InStream(k)
      BY <1>4, <1>6, <2>1, <2>2 DEF Ordered
    <2>3. CASE j = n + 1
      <3>1. toGw[k][i].seq[2] \in Unread(k)
        BY <2>1 DEF Unread
      <3> QED BY <1>3, <1>4, <1>6, <2>1, <2>3, <3>1
    <2> QED BY <1>4, <2>2, <2>3
  <1> QED BY <1>5, <1>6 DEF Ordered

\* The gateway reads the first of the stream.
LEMMA StreamShrinks ==
    ASSUME GatewayTypeOK, NEW k \in Keys, Ordered(k), toGw[k] # <<>>,
           Head(toGw[k]).f \in {"DATA", "FIN"}, toGw'[k] = Tail(toGw[k])
    PROVE  /\ Head(toGw[k]).seq[2] \in Unread(k)
           /\ \A v \in Unread(k) : v = Head(toGw[k]).seq[2] \/ v > Head(toGw[k]).seq[2]
           /\ Unread(k)' = Unread(k) \ {Head(toGw[k]).seq[2]}
           /\ Ordered(k)'
  <1>1. toGw[k] \in Seq(UpSegment)
    BY Numbers
  <1>2. PICK n \in Nat : n = Len(toGw[k])
    BY <1>1
  <1>3. PICK s : s = Head(toGw[k])
    OBVIOUS
  <1>4. /\ n >= 1 /\ toGw[k][1] = s /\ Len(toGw'[k]) = n - 1
        /\ \A i \in 1..(n - 1) : toGw'[k][i] = toGw[k][i + 1]
    BY <1>1, <1>2, <1>3
  <1>5. 1 \in InStream(k)
    BY <1>2, <1>3, <1>4 DEF InStream
  <1>6. \A i \in InStream(k)' : /\ i + 1 \in InStream(k) /\ i >= 1 /\ i \in Nat
                               /\ toGw'[k][i].seq[2] = toGw[k][i + 1].seq[2]
    BY <1>2, <1>4 DEF InStream
  <1>7. \A m \in InStream(k) : m # 1 =>
            /\ m - 1 \in InStream(k)'
            /\ toGw'[k][m - 1].seq[2] = toGw[k][m].seq[2]
    <2> SUFFICES ASSUME NEW m \in InStream(k), m # 1
                 PROVE  /\ m - 1 \in InStream(k)'
                        /\ toGw'[k][m - 1].seq[2] = toGw[k][m].seq[2]
      OBVIOUS
    <2>1. m \in 1..n /\ m - 1 \in 1..(n - 1) /\ toGw'[k][m - 1] = toGw[k][(m - 1) + 1]
      BY <1>2, <1>4 DEF InStream
    <2>2. (m - 1) + 1 = m
      BY <2>1
    <2> QED BY <1>4, <2>1, <2>2 DEF InStream
  <1>8. \A i \in InStream(k) : i \in Nat /\ i >= 1
    BY DEF InStream
  <1>9. \A i \in InStream(k) : i # 1 => toGw[k][i].seq[2] > s.seq[2]
    <2> SUFFICES ASSUME NEW i \in InStream(k), i # 1 PROVE toGw[k][i].seq[2] > s.seq[2]
      OBVIOUS
    <2>1. 1 < i
      BY <1>8
    <2>2. toGw[k][1].seq[2] < toGw[k][i].seq[2]
      BY <1>5, <2>1 DEF Ordered
    <2>3. toGw[k][i].seq[2] \in Nat /\ s.seq[2] \in Nat
      BY <1>4, <1>5, Numbers DEF InStream
    <2> QED BY <1>4, <2>2, <2>3
  <1>10. s.seq[2] \in Unread(k) /\ s.seq[2] \in Nat
    BY <1>4, <1>5, Numbers DEF Unread, InStream
  <1>11. \A v \in Unread(k) : v = s.seq[2] \/ v > s.seq[2]
    BY <1>4, <1>9 DEF Unread
  <1>12. \A v : v \in Unread(k)' <=> v \in Unread(k) /\ v # s.seq[2]
    <2>1. ASSUME NEW v \in Unread(k)' PROVE v \in Unread(k) /\ v # s.seq[2]
      <3>1. PICK i \in InStream(k)' : v = toGw'[k][i].seq[2]
        BY <2>1 DEF Unread
      <3>2. i + 1 \in InStream(k) /\ i + 1 # 1 /\ v = toGw[k][i + 1].seq[2]
        <4>1. /\ i + 1 \in InStream(k) /\ i >= 1 /\ i \in Nat
              /\ toGw'[k][i].seq[2] = toGw[k][i + 1].seq[2]
          BY <1>6
        <4>2. i + 1 # 1
          BY <4>1
        <4> QED BY <3>1, <4>1, <4>2
      <3>3. v > s.seq[2]
        BY <1>9, <3>2
      <3>4. v \in Nat
        BY <3>2, Numbers DEF InStream
      <3> QED BY <1>10, <3>2, <3>3, <3>4 DEF Unread
    <2>2. ASSUME NEW v \in Unread(k), v # s.seq[2] PROVE v \in Unread(k)'
      <3>1. PICK m \in InStream(k) : v = toGw[k][m].seq[2]
        BY <2>2 DEF Unread
      <3>2. m # 1
        BY <1>4, <2>2, <3>1
      <3> QED BY <1>7, <3>1, <3>2 DEF Unread
    <2> QED BY <2>1, <2>2
  <1>13. ASSUME NEW i \in InStream(k)', NEW j \in InStream(k)', i < j
         PROVE  toGw'[k][i].seq[2] < toGw'[k][j].seq[2]
    <2>1. i + 1 < j + 1
      BY <1>6, <1>13
    <2> QED BY <1>6, <2>1 DEF Ordered
  <1>14. Ordered(k)'
    BY <1>13 DEF Ordered
  <1> QED BY <1>3, <1>10, <1>11, <1>12, <1>14

\* As long as nothing is lost or sent again, a step keeps a key's stream, adds the
\* next of it, or takes the first.
LEMMA StreamStep ==
    ASSUME GatewayTypeOK, OnePerKey, [Next]_vars, faults' = 0, NEW k \in Keys
    PROVE  \/ /\ Unread(k)' = Unread(k) /\ (Ordered(k) => Ordered(k)')
              /\ Quiet(k) \/ client'[k] = NewClient("synsent", client[k].isn + 1)
           \/ /\ client[k].st = "established" /\ client'[k].isn = client[k].isn
              /\ client'[k].snd = client[k].snd + 1
              /\ Unread(k)' = Unread(k) \cup {client[k].snd}
              /\ Ordered(k) /\ (\A v \in Unread(k) : v < client[k].snd) => Ordered(k)'
           \/ /\ toGw[k] # <<>> /\ Head(toGw[k]).f \in {"DATA", "FIN"}
              /\ toGw'[k] = Tail(toGw[k])
              /\ tcp[k] = NoConn \/ OnData(k, tcp[k]) \/ OnFin(k, tcp[k])
  <1>1. UpStep(k) /\ toGw[k] \in Seq(UpSegment)
    BY StepOfUp, Numbers
  <1>2. CASE Quiet(k) /\ toGw'[k] = toGw[k]
    <2>1. Unread(k)' = Unread(k) /\ (Ordered(k) => Ordered(k)')
      BY <1>2 DEF Unread, Ordered, InStream
    <2> QED BY <1>2, <2>1
  <1>3. CASE /\ Quiet(k) /\ toGw[k] # <<>> /\ toGw'[k] = Tail(toGw[k])
             /\ Leaves(k, Head(toGw[k]))
    <2>1. CASE Head(toGw[k]).f \in {"DATA", "FIN"}
      BY <1>3, <2>1 DEF Leaves
    <2>2. CASE Head(toGw[k]).f \notin {"DATA", "FIN"}
      <3>1. \A i \in InStream(k)' : Was(k, i, 1)
        BY <1>1, <1>3 DEF InStream, Was
      <3>2. ASSUME NEW m \in InStream(k)
            PROVE  m - 1 \in 1..Len(toGw'[k]) /\ toGw'[k][m - 1] = toGw[k][m]
        <4>1. m \in 1..Len(toGw[k]) /\ m # 1
          BY <1>1, <1>3, <2>2 DEF InStream
        <4>2. m - 1 \in 1..Len(toGw'[k]) /\ toGw'[k][m - 1] = toGw[k][(m - 1) + 1]
          BY <1>1, <1>3, <4>1
        <4>3. (m - 1) + 1 = m
          BY <4>1
        <4> QED BY <4>2, <4>3
      <3>3. Unread(k)' = Unread(k) /\ (Ordered(k) => Ordered(k)')
        BY <3>1, <3>2, StreamKept
      <3> QED BY <1>3, <3>3
    <2> QED BY <2>1, <2>2
  <1>4. ASSUME NEW s \in UpSegment, toGw'[k] = Append(toGw[k], s), NewSegment(k, s)
        PROVE  \/ /\ Unread(k)' = Unread(k) /\ (Ordered(k) => Ordered(k)')
                  /\ Quiet(k) \/ client'[k] = NewClient("synsent", client[k].isn + 1)
               \/ /\ client[k].st = "established" /\ client'[k].isn = client[k].isn
                  /\ client'[k].snd = client[k].snd + 1
                  /\ Unread(k)' = Unread(k) \cup {client[k].snd}
                  /\ Ordered(k) /\ (\A v \in Unread(k) : v < client[k].snd) => Ordered(k)'
    <2>1. CASE s.f \in {"DATA", "FIN"}
      <3>1. /\ s.seq[2] = client[k].snd /\ client[k].st = "established"
            /\ client'[k].isn = client[k].isn /\ client'[k].snd = client[k].snd + 1
        BY <1>4, <2>1 DEF NewSegment
      <3> QED BY <1>4, <2>1, <3>1, StreamGrows
    <2>2. CASE s.f \notin {"DATA", "FIN"}
      <3>1. Quiet(k) \/ client'[k] = NewClient("synsent", client[k].isn + 1)
        BY <1>4, <2>2 DEF NewSegment
      <3>2. /\ Len(toGw'[k]) = Len(toGw[k]) + 1 /\ Len(toGw[k]) \in Nat
            /\ toGw'[k][Len(toGw[k]) + 1] = s
            /\ \A i \in 1..Len(toGw[k]) : toGw'[k][i] = toGw[k][i]
        BY <1>1, <1>4
      <3>3. \A i \in InStream(k)' : Was(k, i, 0)
        BY <2>2, <3>2 DEF InStream, Was
      <3>4. \A m \in InStream(k) : m - 0 \in 1..Len(toGw'[k]) /\ toGw'[k][m - 0] = toGw[k][m]
        BY <3>2 DEF InStream
      <3>5. Unread(k)' = Unread(k) /\ (Ordered(k) => Ordered(k)')
        BY <3>3, <3>4, StreamKept
      <3> QED BY <3>1, <3>5
    <2> QED BY <2>1, <2>2
  <1>5. ASSUME NEW a \in UpSegment, a.f = "ACK", Quiet(k), toGw[k] # <<>>,
               toGw[k][Len(toGw[k])].f = "ACK",
               toGw'[k] = [toGw[k] EXCEPT ![Len(toGw[k])] = a]
        PROVE  Unread(k)' = Unread(k) /\ (Ordered(k) => Ordered(k)')
    <2>1. /\ Len(toGw'[k]) = Len(toGw[k]) /\ Len(toGw[k]) \in Nat
          /\ toGw'[k][Len(toGw[k])] = a
          /\ \A i \in 1..Len(toGw[k]) : i # Len(toGw[k]) => toGw'[k][i] = toGw[k][i]
      BY <1>1, <1>5
    <2>2. \A i \in InStream(k)' : Was(k, i, 0)
      BY <1>5, <2>1 DEF InStream, Was
    <2>3. \A m \in InStream(k) : m - 0 \in 1..Len(toGw'[k]) /\ toGw'[k][m - 0] = toGw[k][m]
      BY <1>5, <2>1 DEF InStream
    <2> QED BY <2>2, <2>3, StreamKept
  <1> QED BY <1>1, <1>2, <1>3, <1>4, <1>5 DEF UpStep

LEMMA FaultsGrow ==
    ASSUME GatewayTypeOK, [Next]_vars, faults' = 0
    PROVE  faults = 0
  <1>1. faults \in Nat
    BY Numbers
  <1>2. Fault => faults' > 0
    BY <1>1 DEF Fault
  <1>3. CASE Gateway
    <2>1. ASSUME NEW k \in Keys, HandleSyn(k) \/ HandleOther(k) PROVE faults' = faults
      BY <2>1 DEF HandleSyn, HandleOther, SynWhilePending, SynAgain, SynToWeb, SynNew, Stray,
         StrayReset, OnAck, OnData, OnFin, OnReset
    <2>2. ASSUME NEW c \in Attempts, Connecting(c) \/ Relaying(c) PROVE faults' = faults
      BY <2>2 DEF Connecting, Relaying, GateAllows, GateRefuses, OpenFails, Refuse, Opened,
         Relay, RelayEnds
    <2> QED BY <1>3, <2>1, <2>2 DEF Gateway
  <1>4. CASE Host \/ Programs
    BY <1>4 DEF Host, HostActs, HostSends, HostCloses, HostBreaks, HostStalls, HostTakes,
       Programs, Connect, GiveUp,
       Write, ShutDown, Abort
  <1>5. CASE Kernel
    <2>1. PICK k \in Keys : ResendSyn(k) \/ ClientReceives(k) \/ GoesOut(k)
      BY <1>5 DEF Kernel
    <2>2. ClientReceives(k) => \E s : Arriving(k, s)
      BY DEF ClientReceives, Unacceptable, SynAnswered, Ignored, Over, ResetArrives,
         SegmentArrives
    <2> QED
      BY <2>1, <2>2 DEF ResendSyn, GoesOut, Finished, OrphanExpires, Arriving
  <1>6. CASE Faults
    BY <1>2, <1>6 DEF Faults, LoseUp, LoseDown, Retransmit
  <1>7. CASE UNCHANGED vars
    BY <1>7 DEF vars
  <1> QED BY <1>3, <1>4, <1>5, <1>6, <1>7 DEF Next

\* Once two connections have the same name they always do.
LEMMA TwiceStays ==
    ASSUME GatewayTypeOK, GatewayTypeOK', OnePerKey, DownInv, [Next]_vars,
           NEW c \in Attempts, conn[c].at # "unused", Twice(c)
    PROVE  Twice(c)'
  <1>1. PICK d \in Attempts : /\ d # c /\ conn[d].snext > 0
                              /\ conn[d].key = conn[c].key /\ conn[d].isn = conn[c].isn
    BY DEF Twice
  <1>2. HostOf(c) /\ HostOf(d)
    BY DEF DownInv
  <1>3. conn[d].at # "unused"
    BY <1>1, <1>2 DEF HostOf
  <1>4. SameName(c) /\ SameName(d) /\ conn'[d].snext > 0
    <2>1. conn'[d].snext >= conn[d].snext /\ conn[d].snext \in Nat /\ conn'[d].snext \in Nat
      BY <1>2, AttemptsMoveOn, Numbers DEF GatewayTypeOK, Attempt
    <2> QED BY <1>1, <1>2, <1>3, <2>1, AttemptsMoveOn
  <1> QED BY <1>1, <1>4 DEF Twice, SameName

\* Of the uses of a key, the attempt in use is for the last that was answered.
LEMMA LatestAnswered ==
    ASSUME GatewayTypeOK, DownInv, ReachInv, NEW c \in Attempts, InUse(c), NEW isn \in Nat,
           Answered(conn[c].key, isn), conn[c].isn <= isn
    PROVE  isn = conn[c].isn
  <1>1. PICK d \in Attempts : Reached(d, conn[c].key, isn)
    BY DEF Answered
  <1>2. HostOf(d) /\ conn[c].isn \in Nat /\ conn[c].key \in Keys
    BY Numbers DEF DownInv
  <1>3. Begun(d, conn[c].key, conn[d].isn)
    BY <1>1, <1>2 DEF Reached, HostOf, Begun
  <1>4. conn[d].isn <= conn[c].isn
    BY <1>2, <1>3 DEF ReachInv
  <1> QED BY <1>1, <1>2, <1>4 DEF Reached

\* What waits for an attempt in use is of its own use of the key, and so is what
\* the program writes.
LEMMA StreamIsCurrent ==
    ASSUME GatewayTypeOK, UpInv, DownInv, ReachInv, NEW c \in Attempts, InUse(c)
    PROVE  /\ \A i \in InStream(conn[c].key) :
                  /\ toGw[conn[c].key][i].seq[1] = conn[c].isn
                  /\ Answered(conn[c].key, conn[c].isn)
           /\ client[conn[c].key].st = "established" =>
                  client[conn[c].key].isn = conn[c].isn
           /\ conn[c].isn <= client[conn[c].key].isn
  <1>1. PICK k \in Keys : k = conn[c].key
    BY Numbers
  <1>2. Begun(c, k, conn[c].isn)
    BY <1>1 DEF Begun, InUse
  <1>3. ASSUME NEW i \in InStream(k)
        PROVE  toGw[k][i].seq[1] = conn[c].isn /\ Answered(k, conn[c].isn)
    <2>1. i \in 1..Len(toGw[k]) /\ toGw[k][i].f \in {"DATA", "FIN"} /\ toGw[k][i].f \in Numbered
      BY DEF InStream, Numbered
    <2>2. conn[c].isn <= toGw[k][i].seq[1]
      BY <1>2, <2>1 DEF UpInv, InSequence
    <2>3. Answered(k, toGw[k][i].seq[1]) /\ toGw[k][i].seq[1] \in Nat
      BY <2>1, Numbers DEF ReachInv
    <2>4. toGw[k][i].seq[1] = conn[c].isn
      BY <1>1, <2>2, <2>3, LatestAnswered
    <2> QED BY <2>3, <2>4
  <1>4. conn[c].isn <= client[k].isn
    BY <1>2 DEF UpInv, InSequence
  <1>5. ASSUME client[k].st = "established" PROVE client[k].isn = conn[c].isn
    <2>1. Answered(k, client[k].isn) /\ client[k].isn \in Nat
      BY <1>5, Numbers DEF ReachInv
    <2> QED BY <1>1, <1>4, <2>1, LatestAnswered
  <1> QED BY <1>1, <1>3, <1>4, <1>5

LEMMA AppendNext ==
    ASSUME NEW b, NEW n \in Nat
    PROVE  /\ Append([i \in 1..n |-> <<b, i>>], <<b, n + 1>>) = [i \in 1..(n + 1) |-> <<b, i>>]
           /\ Len([i \in 1..(n + 1) |-> <<b, i>>]) = n + 1
  <1>1. PICK x : x = <<b, n + 1>>
    OBVIOUS
  <1>2. Append([i \in 1..n |-> <<b, i>>], x)
            = [i \in 1..(n + 1) |-> IF i = n + 1 THEN x ELSE <<b, i>>]
    OBVIOUS
  <1> QED BY <1>1, <1>2

\* InOrderOf after a step, from what is known of the attempt before it.
GoesOn(c, k, b, n) ==
    /\ conn'[c].key = k /\ conn'[c].isn = b /\ Len(host'[c].got) = n
    /\ host'[c].got = [i \in 1..n |-> <<b, i>>]
    /\ conn'[c].at = "up" /\ ~host'[c].shut => InLine(k, b, n)'

LEMMA InOrderNext ==
    ASSUME NEW c, NEW k, NEW b, NEW n, GoesOn(c, k, b, n)
    PROVE  InOrderOf(c)'
  <1>1. /\ conn'[c].key = k /\ conn'[c].isn = b /\ Len(host'[c].got) = n
        /\ host'[c].got = [i \in 1..n |-> <<b, i>>]
        /\ conn'[c].at = "up" /\ ~host'[c].shut => InLine(k, b, n)'
    BY DEF GoesOn
  <1>2. Unread(conn[c].key)' = Unread(k)'
    BY <1>1 DEF Unread, InStream
  <1>3. Ordered(conn[c].key)' <=> Ordered(k)'
    BY <1>1 DEF Ordered, InStream
  <1>4. InLine(k, b, n)' => InLine(conn[c].key, conn[c].isn, Len(host[c].got))'
    BY <1>1, <1>2, <1>3 DEF InLine
  <1> QED BY <1>1, <1>4 DEF InOrderOf

\* A connection that is opened: nothing of its stream is on its way yet.
LEMMA OpensInOrder ==
    ASSUME GatewayTypeOK, GatewayTypeOK', OnePerKey, UpInv, DownInv, ReachInv, [Next]_vars,
           NEW c \in Attempts, Opens(c), ~Twice(c)'
    PROVE  InOrderOf(c)'
  <1>1. PICK k \in Keys : k = conn[c].key
    BY Numbers
  <1>2. HostOf(c) /\ conn[c].at = "opening" /\ InUse(c)
    BY DEF DownInv, Opens, InUse
  <1>3. conn[c].snext = 0 /\ host[c].got = <<>>
    BY <1>2 DEF HostOf
  <1>4. ~Answered(k, conn[c].isn)
    <2> SUFFICES ASSUME NEW d \in Attempts, Reached(d, k, conn[c].isn) PROVE FALSE
      BY DEF Answered
    <2>1. Twice(c)
      BY <1>1, <1>3 DEF Reached, Twice
    <2> QED BY <1>2, <2>1, TwiceStays
  <1>5. InStream(k) = {}
    BY <1>1, <1>2, <1>4, StreamIsCurrent
  <1>6. client[k].isn = conn[c].isn => client[k].snd = 1
    <2>1. client[k].snd >= 1 /\ client[k].snd \in Nat
      BY Numbers DEF ReachInv
    <2>2. client[k].isn = conn[c].isn => ~(client[k].snd > 1)
      BY <1>4 DEF ReachInv
    <2> QED BY <2>1, <2>2
  <1>7. /\ conn'[c].key = k /\ conn'[c].isn = conn[c].isn /\ host'[c] = host[c]
        /\ toGw' = toGw /\ client' = client
    BY <1>1 DEF Opens, SameName
  <1>8. InStream(k)' = {} /\ Unread(k)' = {} /\ Ordered(k)'
    BY <1>5, <1>7 DEF InStream, Unread, Ordered
  <1>9. Len(<<>>) = 0 /\ <<>> = [i \in 1..0 |-> <<conn[c].isn, i>>] /\ (0 + 1)..(1 - 1) = {}
    OBVIOUS
  <1>10. client'[k].isn = conn'[c].isn => client'[k].snd = 1
    BY <1>6, <1>7
  <1>11. PICK b : b = conn'[c].isn
    OBVIOUS
  <1>12. PICK n : n = 0
    OBVIOUS
  <1>13. host'[c].got = [i \in 1..n |-> <<b, i>>] /\ Len(host'[c].got) = n
    BY <1>3, <1>7, <1>9, <1>11, <1>12
  <1>14. InLine(k, b, n)'
    BY <1>8, <1>9, <1>10, <1>11, <1>12 DEF InLine
  <1>15. conn'[c].key = k /\ conn'[c].isn = b
    BY <1>7, <1>11
  <1>16. GoesOn(c, k, b, n)
    BY <1>13, <1>14, <1>15 DEF GoesOn
  <1> QED BY <1>16, InOrderNext

\* on_data hands the host the unit that is next.
LEMMA PassesInOrder ==
    ASSUME GatewayTypeOK, GatewayTypeOK', OnePerKey, UpInv, DownInv, ReachInv, [Next]_vars,
           NEW c \in Attempts, NEW k \in Keys, PassesUp(c, k), ~host[c].shut, InOrderOf(c)
    PROVE  InOrderOf(c)'
  <1>1. /\ conn[c].key = k /\ conn[c].at = "up" /\ InUse(c) /\ client' = client
        /\ conn'[c].key = k /\ conn'[c].isn = conn[c].isn
        /\ toGw[k] # <<>> /\ Head(toGw[k]).f = "DATA" /\ toGw'[k] = Tail(toGw[k])
        /\ host'[c].got = Append(host[c].got, Head(toGw[k]).seq)
    BY DEF PassesUp, SameConn, Reads, InUse
  <1>2. PICK b \in Nat : b = conn[c].isn
    BY Numbers
  <1>3. PICK n \in Nat : n = Len(host[c].got)
    BY Numbers
  <1>4. InLine(k, b, n) /\ host[c].got = [i \in 1..n |-> <<b, i>>]
    BY <1>1, <1>2, <1>3 DEF InOrderOf
  <1>5. PICK s \in UpSegment : s = Head(toGw[k]) /\ s = toGw[k][1] /\ 1 \in 1..Len(toGw[k])
    BY <1>1, Numbers
  <1>6. s.seq[1] = b /\ s.seq \in SeqNo
    <2>1. 1 \in InStream(k)
      BY <1>1, <1>5 DEF InStream
    <2>2. toGw[k][1].seq[1] = conn[c].isn
      BY <1>1, <2>1, StreamIsCurrent
    <2>3. s.seq \in SeqNo
      BY <1>5 DEF UpSegment
    <2> QED BY <1>2, <1>5, <2>2, <2>3
  <1>7. PICK v \in Nat : v = s.seq[2]
    BY Numbers
  <1>8. /\ v \in Unread(k) /\ \A w \in Unread(k) : w = v \/ w > v
        /\ Unread(k)' = Unread(k) \ {v} /\ Ordered(k)'
    BY <1>1, <1>4, <1>5, <1>7, StreamShrinks DEF InLine
  <1>9. v = n + 1
    <2>1. v > n /\ (n + 1)..v \subseteq Unread(k)
      BY <1>4, <1>8 DEF InLine
    <2>2. n + 1 \in Unread(k)
      BY <2>1
    <2> QED BY <1>8, <2>1, <2>2
  <1>10. s.seq = <<b, n + 1>>
    <2>1. PICK x \in Initial, y \in Nat : s.seq = <<x, y>>
      BY <1>6 DEF SeqNo
    <2>2. <<x, y>>[1] = b /\ <<x, y>>[2] = v
      BY <1>6, <1>7, <2>1, Zenon
    <2>3. x = b /\ y = n + 1
      BY <1>9, <2>2
    <2> QED BY <2>1, <2>3
  <1>11. host'[c].got = [i \in 1..(n + 1) |-> <<b, i>>] /\ Len(host'[c].got) = n + 1
    <2>1. host'[c].got = Append([i \in 1..n |-> <<b, i>>], <<b, n + 1>>)
      BY <1>1, <1>4, <1>5, <1>10
    <2> QED BY <2>1, AppendNext
  <1>12. PICK m \in Nat : m = n + 1
    OBVIOUS
  <1>13. ASSUME NEW w \in Unread(k)' PROVE w > m /\ (m + 1)..w \subseteq Unread(k)'
    <2>1. w \in Unread(k) /\ w # v /\ w > v /\ w \in Nat
      BY <1>8, Numbers DEF Unread, InStream
    <2>2. (n + 1)..w \subseteq Unread(k)
      BY <1>4, <2>1 DEF InLine
    <2>3. \A x \in (m + 1)..w : x \in (n + 1)..w /\ x # v
      BY <1>9, <1>12, <2>1
    <2> QED BY <1>8, <1>9, <1>12, <2>1, <2>2, <2>3
  <1>14. ASSUME client'[k].isn = b
         PROVE  m < client'[k].snd /\ Unread(k)' = (m + 1)..(client'[k].snd - 1)
    <2>1. PICK e \in Nat : e = client[k].snd
      BY Numbers
    <2>2. n < e /\ Unread(k) = (n + 1)..(e - 1)
      BY <1>1, <1>4, <1>14, <2>1 DEF InLine
    <2>3. m < e
      BY <1>8, <1>9, <1>12, <2>2
    <2>4. (n + 1)..(e - 1) \ {n + 1} = (m + 1)..(e - 1)
      BY <1>12
    <2> QED BY <1>1, <1>8, <1>9, <2>1, <2>2, <2>3, <2>4
  <1>15. InLine(k, b, m)'
    BY <1>8, <1>13, <1>14 DEF InLine
  <1>16. GoesOn(c, k, b, m)
    BY <1>1, <1>2, <1>11, <1>12, <1>15 DEF GoesOn
  <1> QED BY <1>16, InOrderNext

\* The host gets nothing in this step, and its side stays open.
LEMMA WaitsInOrder ==
    ASSUME GatewayTypeOK, GatewayTypeOK', OnePerKey, UpInv, DownInv, ReachInv, [Next]_vars,
           faults' = 0, NEW c \in Attempts, InOrderOf(c),
           conn[c].at = "up", conn'[c].at = "up", SameName(c),
           host'[c].got = host[c].got, host'[c].shut = host[c].shut, ~host[c].shut
    PROVE  InOrderOf(c)'
  <1>1. PICK k \in Keys : k = conn[c].key
    BY Numbers
  <1>2. PICK b \in Nat : b = conn[c].isn
    BY Numbers
  <1>3. PICK n \in Nat : n = Len(host[c].got)
    BY Numbers
  <1>4. PICK e \in Nat : e = client[k].snd
    BY Numbers
  <1>5. PICK u \in Nat : u = client[k].isn
    BY Numbers
  <1>6. InLine(k, b, n) /\ host[c].got = [i \in 1..n |-> <<b, i>>]
    BY <1>1, <1>2, <1>3 DEF InOrderOf
  <1> SUFFICES InLine(k, b, n)'
    <2>1. GoesOn(c, k, b, n)
      BY <1>1, <1>2, <1>3, <1>6 DEF GoesOn, SameName
    <2> QED BY <2>1, InOrderNext
  <1>7. b <= u /\ (client[k].st = "established" => u = b)
    BY <1>1, <1>2, <1>5, StreamIsCurrent DEF InUse
  <1>8. /\ Ordered(k) /\ \A v \in Unread(k) : v > n /\ (n + 1)..v \subseteq Unread(k)
        /\ u = b => n < e /\ Unread(k) = (n + 1)..(e - 1)
    BY <1>4, <1>5, <1>6 DEF InLine
  <1>9. CASE /\ Unread(k)' = Unread(k) /\ (Ordered(k) => Ordered(k)')
             /\ Quiet(k) \/ client'[k] = NewClient("synsent", client[k].isn + 1)
    <2>1. client'[k].isn = b => u = b /\ client'[k].snd = e
      <3>1. CASE Quiet(k)
        BY <1>4, <1>5, <3>1 DEF Quiet
      <3>2. CASE client'[k] = NewClient("synsent", client[k].isn + 1)
        <4>1. client'[k].isn = u + 1
          BY <1>5, <3>2 DEF NewClient
        <4> QED BY <1>7, <4>1
      <3> QED BY <1>9, <3>1, <3>2
    <2> QED BY <1>8, <1>9, <2>1 DEF InLine
  <1>10. CASE /\ client[k].st = "established" /\ client'[k].isn = client[k].isn
              /\ client'[k].snd = client[k].snd + 1
              /\ Unread(k)' = Unread(k) \cup {client[k].snd}
              /\ Ordered(k) /\ (\A v \in Unread(k) : v < client[k].snd) => Ordered(k)'
    <2>1. n < e /\ Unread(k) = (n + 1)..(e - 1)
      BY <1>7, <1>8, <1>10
    <2>2. Ordered(k)'
      BY <1>4, <1>8, <1>10, <2>1
    <2>3. Unread(k)' = (n + 1)..e
      <3>1. (n + 1)..(e - 1) \cup {e} = (n + 1)..e
        BY <2>1
      <3> QED BY <1>4, <1>10, <2>1, <3>1
    <2>4. \A v \in (n + 1)..e : v > n /\ (n + 1)..v \subseteq (n + 1)..e
      OBVIOUS
    <2>5. client'[k].snd = e + 1 /\ n < e + 1 /\ (n + 1)..e = (n + 1)..((e + 1) - 1)
      BY <1>4, <1>10, <2>1
    <2> QED BY <2>2, <2>3, <2>4, <2>5 DEF InLine
  <1>11. CASE /\ toGw[k] # <<>> /\ Head(toGw[k]).f \in {"DATA", "FIN"}
              /\ toGw'[k] = Tail(toGw[k])
              /\ tcp[k] = NoConn \/ OnData(k, tcp[k]) \/ OnFin(k, tcp[k])
    <2>1. tcp[k] = c /\ c # NoConn
      BY <1>1, OnePerKeySplit, NoConnIsNoAttempt DEF TableExact
    <2>2. CASE OnData(k, c)
      <3>1. host'[c].got = Append(host[c].got, Head(toGw[k]).seq)
        BY <2>2, SMTT(30) DEF OnData, GatewayTypeOK, HostEnd
      <3>2. Len(host'[c].got) = n + 1
        BY <1>3, <3>1, Numbers
      <3> QED BY <1>3, <3>2
    <2>3. CASE OnFin(k, c)
      <3>1. host'[c].shut
        <4>1. host \in [Attempts -> HostEnd]
          BY DEF GatewayTypeOK
        <4>2. host' = [host EXCEPT ![c].shut = TRUE]
          BY <2>3 DEF OnFin
        <4> QED BY <4>1, <4>2 DEF HostEnd
      <3> QED BY <3>1
    <2> QED BY <1>11, <2>1, <2>2, <2>3
  <1> QED BY <1>9, <1>10, <1>11, StreamStep

\* The host's side is closed, or the relay is over: what it has got stays.
LEMMA StaysInOrder ==
    ASSUME NEW c, InOrderOf(c), SameName(c), host'[c].got = host[c].got,
           conn'[c].at # "up" \/ host'[c].shut
    PROVE  InOrderOf(c)'
  BY DEF InOrderOf, SameName

LEMMA OrderOfStep ==
    ASSUME GatewayTypeOK, GatewayTypeOK', OnePerKey, UpInv, DownInv, DownInv', ReachInv,
           OrderInv, [Next]_vars, faults' = 0, NEW c \in Attempts, ~Twice(c)'
    PROVE  InOrderOf(c)'
  <1>1. AttemptStep(c) /\ HostOf(c) /\ HostOf(c)'
    BY StepOfConn DEF DownInv
  <1>2. CASE conn'[c].snext = 0
    <2>1. conn'[c].at # "up" /\ host'[c].got = <<>>
      BY <1>1, <1>2 DEF HostOf
    <2>2. <<>> = [i \in 1..0 |-> <<conn'[c].isn, i>>] /\ Len(<<>>) = 0
      OBVIOUS
    <2> QED BY <2>1, <2>2 DEF InOrderOf
  <1>3. CASE conn'[c].snext # 0 /\ ~Opens(c)
    <2>1. \/ conn[c].at = "ended" /\ SameConn(c) /\ host'[c] = host[c]
          \/ conn[c].at = "up"
      <3>1. conn[c].at \in {"unused", "gating", "opening"} => conn[c].snext = 0
        BY <1>1 DEF HostOf
      <3>2. conn[c].at \in Phase
        BY Numbers
      <3>3. CASE conn[c].at \in {"unused", "gating", "opening"}
        <4>1. conn'[c].snext = 0
          BY <1>1, <1>3, <3>1, <3>3 DEF AttemptStep, SameConn, Begins, PassesUp, Shuts, Cut,
             Waits, PassesDown, Ends, HostTalks
        <4> QED BY <1>3, <4>1
      <3>4. CASE conn[c].at = "ended"
        BY <1>1, <3>4, AttemptsMoveOn
      <3> QED BY <3>2, <3>3, <3>4 DEF Phase
    <2>2. InOrderOf(c)
      <3>1. ~Twice(c)
        BY <2>1, TwiceStays
      <3> QED BY <3>1, FaultsGrow DEF OrderInv
    <2>3. CASE conn[c].at = "ended" /\ SameConn(c) /\ host'[c] = host[c]
      <3>1. SameName(c) /\ conn'[c].at # "up"
        BY <2>3 DEF SameConn, SameName
      <3> QED BY <2>2, <2>3, <3>1, StaysInOrder
    <2>4. ASSUME NEW k \in Keys, PassesUp(c, k), ~host[c].shut PROVE InOrderOf(c)'
      BY <2>2, <2>4, PassesInOrder
    <2>5. ASSUME \/ \E k \in Keys : Shuts(c, k) \/ Cut(c, k) \/ (PassesUp(c, k) /\ host[c].shut)
                 \/ Ends(c)
                 \/ PassesDown(c) /\ host[c].shut
                 \/ HostTalks(c) /\ host[c].shut
                 \/ SameConn(c) /\ host'[c] = host[c] /\ host[c].shut
          PROVE  InOrderOf(c)'
      <3>1. SameName(c) /\ host'[c].got = host[c].got
        BY <2>5 DEF Shuts, Cut, PassesUp, Ends, PassesDown, HostTalks, SameConn, SameName
      <3>2. conn'[c].at # "up" \/ host'[c].shut
        BY <2>5 DEF Shuts, Cut, PassesUp, Ends, PassesDown, HostTalks
      <3> QED BY <2>2, <3>1, <3>2, StaysInOrder
    <2>6. ASSUME conn[c].at = "up", ~host[c].shut,
                 \/ PassesDown(c) \/ HostTalks(c)
                 \/ SameConn(c) /\ host'[c] = host[c]
          PROVE  InOrderOf(c)'
      <3>1. /\ SameName(c) /\ host'[c].got = host[c].got /\ host'[c].shut = host[c].shut
            /\ conn'[c].at = "up"
        BY <2>6 DEF PassesDown, HostTalks, SameConn, SameName
      <3> QED BY <2>2, <2>6, <3>1, WaitsInOrder
    <2>7. CASE conn[c].at = "up"
      <3>1. ~Waits(c) /\ \A k \in Keys : ~Begins(c, k)
        BY <2>7 DEF Waits, Begins
      <3>2. \/ SameConn(c) /\ host'[c] = host[c]
            \/ \E k \in Keys : PassesUp(c, k) \/ Shuts(c, k) \/ Cut(c, k)
            \/ PassesDown(c) \/ Ends(c) \/ HostTalks(c)
        BY <1>1, <1>3, <3>1 DEF AttemptStep
      <3> QED BY <2>4, <2>5, <2>6, <2>7, <3>2
    <2> QED BY <2>1, <2>3, <2>7
  <1>4. CASE Opens(c)
    BY <1>4, OpensInOrder
  <1> QED BY <1>2, <1>3, <1>4

LEMMA InitOrder == Init => OrderInv
  <1> SUFFICES ASSUME Init, NEW c \in Attempts PROVE InOrderOf(c)
    BY DEF OrderInv
  <1>1. host[c].got = <<>> /\ conn[c].at # "up"
    BY DEF Init
  <1>2. <<>> = [i \in 1..0 |-> <<conn[c].isn, i>>] /\ Len(<<>>) = 0
    OBVIOUS
  <1> QED BY <1>1, <1>2 DEF InOrderOf

LEMMA OrderInvStep ==
    ASSUME GatewayTypeOK, GatewayTypeOK', OnePerKey, UpInv, DownInv, DownInv', ReachInv,
           OrderInv, [Next]_vars
    PROVE  OrderInv'
  <1>1. ASSUME faults' = 0, NEW c \in Attempts, ~Twice(c)' PROVE InOrderOf(c)'
    BY <1>1, OrderOfStep
  <1> QED BY <1>1 DEF OrderInv

LEMMA OrderInvariant == Spec => []OrderInv
  <1>1. OrderInv /\ (/\ GatewayTypeOK /\ GatewayTypeOK' /\ OnePerKey /\ UpInv
                     /\ DownInv /\ DownInv' /\ ReachInv)
            /\ [Next]_vars => OrderInv'
    BY OrderInvStep
  <1> QED BY <1>1, InitOrder, UpInvariant, DownInvariant, ReachInvariant, GatewayTyped,
             OneRelayPerKey, PTL DEF Spec

\* HostInOrder: the host gets what the program sent, in order and once.
THEOREM HostGetsInOrder == Spec => []HostInOrder
  <1>1. OrderInv => HostInOrder
    BY DEF OrderInv, HostInOrder, InOrderOf
  <1> QED BY <1>1, OrderInvariant, PTL

-----------------------------------------------------------------------------
(* What the segments carry: UnitsInv is inductive.                         *)

\* A program writes no more than its units and the FIN; its SYN is acknowledged first.
Drafts(k) ==
    /\ client[k].snd <= MaxUp + (IF client[k].fin THEN 2 ELSE 1)
    /\ client[k].st = "established" => client[k].una >= 1
    /\ client[k].st = "synsent" => client[k].peer = 0
UnitsUp(k) ==
    \A i \in 1..Len(toGw[k]) : toGw[k][i].f = "DATA" => toGw[k][i].seq[2] \in 1..MaxUp
UnitsDown(k) ==
    \A i \in 1..Len(toClient[k]) : toClient[k][i].f = "DATA" =>
        toClient[k][i].unit <= host[toClient[k][i].seq[1]].sent
UnitsInv == \A k \in Keys : Drafts(k) /\ UnitsUp(k) /\ UnitsDown(k)

LEMMA DraftsStep ==
    ASSUME GatewayTypeOK, GatewayTypeOK', OnePerKey, [Next]_vars, NEW k \in Keys, Drafts(k)
    PROVE  Drafts(k)'
  <1>1. /\ client[k].snd \in Nat /\ client[k].fin \in BOOLEAN /\ MaxUp \in Nat
        /\ client[k].una \in Nat /\ client'[k].una \in Nat /\ client'[k].fin \in BOOLEAN
    BY GatewayBounds DEF GatewayTypeOK, ClientEnd
  <1>2. client'[k].snd <= MaxUp + (IF client'[k].fin THEN 2 ELSE 1)
    <2>1. CASE Quiet(k)
      BY <2>1 DEF Quiet, Drafts
    <2>2. CASE /\ client[k].st = "established" /\ ~client[k].fin
               /\ client'[k].isn = client[k].isn /\ client'[k].snd = client[k].snd + 1
               /\ client[k].snd <= MaxUp \/ client'[k].fin
      BY <1>1, <2>2 DEF Drafts
    <2>3. CASE client'[k] = NewClient("synsent", client[k].isn + 1)
      BY <1>1, <2>3 DEF NewClient
    <2> QED BY <2>1, <2>2, <2>3, ProgramStep
  <1>3. ClientStep(k)
    BY StepOfReader
  <1>4. client'[k].st = "established" => client'[k].una >= 1
    BY <1>1, <1>3 DEF Drafts, ClientStep, Holds, Joins, Gets, NewClient
  <1>5. client'[k].st = "synsent" => client'[k].peer = 0
    BY <1>3 DEF Drafts, ClientStep, Holds, Joins, Gets, NewClient
  <1> QED BY <1>2, <1>4, <1>5 DEF Drafts

LEMMA UnitsUpStep ==
    ASSUME GatewayTypeOK, OnePerKey, ReachInv, [Next]_vars, NEW k \in Keys,
           Drafts(k), UnitsUp(k)
    PROVE  UnitsUp(k)'
  <1> SUFFICES ASSUME NEW i \in 1..Len(toGw'[k]), toGw'[k][i].f = "DATA"
               PROVE  toGw'[k][i].seq[2] \in 1..MaxUp
    BY DEF UnitsUp
  <1>1. PICK d \in {0, 1} : Was(k, i, d) \/ IsNew(k, i)
    BY QueueStep DEF Numbered
  <1>2. CASE Was(k, i, d)
    BY <1>2 DEF Was, UnitsUp
  <1>3. CASE IsNew(k, i)
    <2>1. PICK s \in UpSegment : s = toGw'[k][i] /\ NewSegment(k, s) /\ s.f = "DATA"
      BY <1>3 DEF IsNew
    <2>2. /\ client[k].snd \in Nat /\ client[k].fin \in BOOLEAN /\ MaxUp \in Nat
          /\ client[k].una \in Nat
      BY GatewayBounds DEF GatewayTypeOK, ClientEnd
    <2>3. client[k].snd >= 1
      BY DEF ReachInv
    <2>4. CASE s.seq = <<client[k].isn, client[k].snd>> /\ client[k].snd <= MaxUp
      BY <2>1, <2>2, <2>3, <2>4
    <2>5. CASE /\ s.seq[2] = client[k].una /\ client[k].una < client[k].snd
               /\ client[k].st = "established"
               /\ client[k].fin => client[k].una + 1 # client[k].snd
      BY <2>1, <2>2, <2>5 DEF Drafts
    <2> QED BY <2>1, <2>4, <2>5 DEF NewSegment
  <1> QED BY <1>1, <1>2, <1>3

\* What a host has sent only grows.
LEMMA SentGrows ==
    ASSUME GatewayTypeOK, OnePerKey, [Next]_vars, NEW c \in Attempts
    PROVE  host'[c].sent >= host[c].sent /\ host'[c].sent \in Nat
  <1>1. AttemptStep(c) /\ host[c].sent \in Nat
    BY StepOfConn, Numbers
  <1>2. host'[c].sent = host[c].sent \/ host'[c].sent = host[c].sent + 1
    BY <1>1 DEF AttemptStep, Begins, PassesUp, Shuts, Cut, Waits, Opens, PassesDown, Ends,
       HostTalks
  <1> QED BY <1>1, <1>2

LEMMA UnitsDownStep ==
    ASSUME GatewayTypeOK, OnePerKey, DownInv, [Next]_vars, NEW k \in Keys, UnitsDown(k)
    PROVE  UnitsDown(k)'
  <1> SUFFICES ASSUME NEW i \in 1..Len(toClient'[k]), toClient'[k][i].f = "DATA"
               PROVE  toClient'[k][i].unit <= host'[toClient'[k][i].seq[1]].sent
    BY DEF UnitsDown
  <1>1. PICK s : s = toClient'[k][i]
    OBVIOUS
  <1>2. ASSUME NEW j \in 1..Len(toClient[k]), s = toClient[k][j]
        PROVE  s.unit <= host'[s.seq[1]].sent
    <2>1. OnWayDown(k, s) /\ s \in DownSegment /\ s.unit <= host[s.seq[1]].sent
      BY <1>1, <1>2, Numbers DEF DownInv, UnitsDown
    <2>2. PICK c \in Attempts : c = s.seq[1]
      BY <1>1, <2>1 DEF OnWayDown
    <2>3. s.unit \in Nat /\ host[c].sent \in Nat
      BY <2>1, Numbers DEF DownSegment
    <2> QED BY <2>1, <2>2, <2>3, SentGrows
  <1>3. CASE NewDown(k, s)
    <2>1. PICK c \in Attempts : /\ PassesDown(c)
                                /\ s.seq = <<c, conn[c].snext>> /\ s.unit = conn[c].snext
      BY <1>1, <1>3 DEF NewDown
    <2>2. s.seq[1] = c /\ host'[c] = host[c]
      BY <2>1 DEF PassesDown
    <2> QED BY <1>1, <2>1, <2>2 DEF PassesDown
  <1> QED BY <1>1, <1>2, <1>3, DownQueueStep

LEMMA InitUnits == Init => UnitsInv
  BY GatewayBounds DEF Init, UnitsInv, Drafts, UnitsUp, UnitsDown, NewClient

LEMMA UnitsInvStep ==
    ASSUME GatewayTypeOK, GatewayTypeOK', OnePerKey, ReachInv, DownInv, UnitsInv, [Next]_vars
    PROVE  UnitsInv'
  <1>1. \A k \in Keys : Drafts(k)'
    BY DraftsStep DEF UnitsInv
  <1>2. \A k \in Keys : UnitsUp(k)'
    BY UnitsUpStep DEF UnitsInv
  <1>3. \A k \in Keys : UnitsDown(k)'
    BY UnitsDownStep DEF UnitsInv
  <1> QED BY <1>1, <1>2, <1>3 DEF UnitsInv

LEMMA UnitsInvariant == Spec => []UnitsInv
  <1>1. UnitsInv /\ (GatewayTypeOK /\ GatewayTypeOK' /\ OnePerKey /\ ReachInv /\ DownInv)
            /\ [Next]_vars => UnitsInv'
    BY UnitsInvStep
  <1> QED BY <1>1, InitUnits, DownInvariant, ReachInvariant, GatewayTyped, OneRelayPerKey, PTL
         DEF Spec

-----------------------------------------------------------------------------
(* The refinement of ByteStreams: the steps of a gateway, one by one.      *)

LEMMA ReaderIs == \A k \in Keys : [j \in Keys |-> ReaderOf(j)][k] = ReaderOf(k)
  OBVIOUS

\* A step of one program only, of one attempt only, or of the network.
OnlyReader(k) == /\ \A j \in Keys : j # k => client'[j] = client[j]
                 /\ UNCHANGED <<conn, host, faults>>
OnlyPipe(c) == /\ \A d \in Attempts : d # c => conn'[d] = conn[d] /\ host'[d] = host[d]
               /\ UNCHANGED <<client, faults>>

LEMMA StepIsOfOne ==
    ASSUME GatewayTypeOK, [Next]_vars
    PROVE  \/ \E k \in Keys : OnlyReader(k)
           \/ \E c \in Attempts : OnlyPipe(c)
           \/ faults' > 0 /\ UNCHANGED <<conn, host, client>>
  <1>1. /\ ConnTypes /\ HostTypes /\ client \in [Keys -> ClientEnd] /\ faults \in Nat
    BY Numbers DEF GatewayTypeOK, ConnTypes, HostTypes
  <1>2. CASE UNCHANGED <<conn, host, client, faults>>
    <2>1. \A k \in Keys : OnlyReader(k)
      BY <1>2 DEF OnlyReader
    <2> QED BY <2>1, SomeKey
  <1>3. CASE Gateway
    <2>1. ASSUME NEW k \in Keys, HandleSyn(k) \/ HandleOther(k)
          PROVE  \/ UNCHANGED <<conn, host, client, faults>>
                 \/ \E c \in Attempts : OnlyPipe(c)
      <3>1. ASSUME NEW c \in Attempts, SynNew(k, c) \/ OnData(k, c) \/ OnFin(k, c) \/ OnReset(k,
      c)
            PROVE  OnlyPipe(c)
        BY <1>1, <3>1 DEF SynNew, OnData, OnFin, OnReset, OnlyPipe, ConnTypes, HostTypes
      <3>2. \/ UNCHANGED <<conn, host, client, faults>>
            \/ \E c \in Attempts : SynNew(k, c) \/ OnData(k, c) \/ OnFin(k, c) \/ OnReset(k, c)
        BY <2>1 DEF HandleSyn, HandleOther, SynWhilePending, SynAgain, SynToWeb, Stray,
           StrayReset, OnAck
      <3> QED BY <3>1, <3>2
    <2>2. ASSUME NEW c \in Attempts, Connecting(c) \/ Relaying(c) PROVE OnlyPipe(c)
      BY <1>1, <2>2 DEF Connecting, Relaying, GateAllows, GateRefuses, OpenFails, Refuse, Opened,
         Relay, RelayEnds, OnlyPipe, ConnTypes, HostTypes
    <2> QED BY <1>2, <1>3, <2>1, <2>2 DEF Gateway
  <1>4. CASE Host
    <2>1. PICK c \in Attempts : HostActs(c)
      BY <1>4 DEF Host
    <2>2. OnlyPipe(c)
      BY <1>1, <2>1 DEF HostActs, HostSends, HostCloses, HostBreaks, HostStalls, HostTakes,
         OnlyPipe, ConnTypes, HostTypes
    <2> QED BY <2>2
  <1>5. CASE Programs
    <2>1. PICK k \in Keys : Connect(k) \/ GiveUp(k) \/ Write(k) \/ ShutDown(k) \/ Abort(k)
      BY <1>5 DEF Programs
    <2>2. OnlyReader(k)
      BY <1>1, <2>1 DEF Connect, GiveUp, Write, ShutDown, Abort, OnlyReader
    <2> QED BY <2>2
  <1>6. CASE Kernel
    <2>1. PICK k \in Keys : ResendSyn(k) \/ ClientReceives(k) \/ GoesOut(k)
      BY <1>6 DEF Kernel
    <2>2. CASE ResendSyn(k)
      BY <1>2, <2>2 DEF ResendSyn
    <2>3. CASE GoesOut(k)
      <3>1. OnlyReader(k)
        BY <1>1, <2>3 DEF GoesOut, Finished, OrphanExpires, OnlyReader
      <3> QED BY <3>1
    <2>4. CASE ClientReceives(k)
      <3>1. PICK s : \/ Unacceptable(k, s) \/ SynAnswered(k, s) \/ Ignored(k, s)
                     \/ Over(k, s) \/ ResetArrives(k, s) \/ SegmentArrives(k, s)
        BY <2>4 DEF ClientReceives
      <3>2. UNCHANGED <<conn, host, faults>>
        BY <3>1 DEF Unacceptable, SynAnswered, Ignored, Over, ResetArrives, SegmentArrives,
           Arriving
      <3>3. \A j \in Keys : j # k => client'[j] = client[j]
        BY <1>1, <3>1 DEF Unacceptable, SynAnswered, Ignored, Over, ResetArrives, SegmentArrives
      <3> QED BY <3>2, <3>3 DEF OnlyReader
    <2> QED BY <2>1, <2>2, <2>3, <2>4
  <1>7. CASE Faults
    BY <1>1, <1>7 DEF Faults, LoseUp, LoseDown, Retransmit, Fault
  <1>8. CASE UNCHANGED vars
    BY <1>2, <1>8 DEF vars
  <1> QED BY <1>3, <1>4, <1>5, <1>6, <1>7, <1>8 DEF Next

\* Such a step, as ByteStreams says it.
LEMMA Changes ==
    ASSUME NEW k \in Keys, OnlyReader(k), NEW r, ReaderOf(k)' = r
    PROVE  Streams!Change(k, r)
  <1>1. \A j \in Keys : j # k => ReaderOf(j)' = ReaderOf(j)
    BY DEF OnlyReader, ReaderOf
  <1>2. \A c \in Attempts : PipeOf(c)' = PipeOf(c)
    BY DEF OnlyReader, PipeOf
  <1>3. [j \in Keys |-> ReaderOf(j)]' = [[j \in Keys |-> ReaderOf(j)] EXCEPT ![k] = r]
    BY <1>1
  <1>4. [c \in Attempts |-> PipeOf(c)]' = [c \in Attempts |-> PipeOf(c)]
    BY <1>2
  <1>5. (faults = 0)' = (faults = 0)
    BY DEF OnlyReader
  <1> QED BY <1>3, <1>4, <1>5 DEF Streams!Change

LEMMA Alters ==
    ASSUME NEW c \in Attempts, OnlyPipe(c), NEW r, PipeOf(c)' = r
    PROVE  Streams!Alter(c, r)
  <1>1. \A d \in Attempts : d # c => PipeOf(d)' = PipeOf(d)
    BY DEF OnlyPipe, PipeOf
  <1>2. \A k \in Keys : ReaderOf(k)' = ReaderOf(k)
    BY DEF OnlyPipe, ReaderOf
  <1>3. [d \in Attempts |-> PipeOf(d)]' = [[d \in Attempts |-> PipeOf(d)] EXCEPT ![c] = r]
    BY <1>1
  <1>4. [k \in Keys |-> ReaderOf(k)]' = [k \in Keys |-> ReaderOf(k)]
    BY <1>2
  <1>5. (faults = 0)' = (faults = 0)
    BY DEF OnlyPipe
  <1> QED BY <1>3, <1>4, <1>5 DEF Streams!Alter

LEMMA Rests ==
    ASSUME \A k \in Keys : ReaderOf(k)' = ReaderOf(k),
           \A c \in Attempts : PipeOf(c)' = PipeOf(c),
           faults' = faults
    PROVE  UNCHANGED Streams!streamVars
  <1>1. [k \in Keys |-> ReaderOf(k)]' = [k \in Keys |-> ReaderOf(k)]
    OBVIOUS
  <1>2. [c \in Attempts |-> PipeOf(c)]' = [c \in Attempts |-> PipeOf(c)]
    OBVIOUS
  <1> QED BY <1>1, <1>2 DEF Streams!streamVars

\* What a step does to a program is a step of ByteStreams, or nothing.
ReaderStep(k) ==
    \/ Streams!Comes(k) \/ Streams!Closes(k)
    \/ \E c \in Attempts : Streams!IsJoined(k, c) \/ Streams!Reads(k, c) \/ Streams!SeesEnd(k, c)

LEMMA ZeroIsNoAttempt == 0 \notin Attempts
  BY GatewayBounds DEF Attempts

\* One field of a program's record changes.
LEMMA ReaderBecomes ==
    ASSUME NEW k, client'[k].isn = client[k].isn, client'[k].peer = client[k].peer
    PROVE  /\ \A x : /\ client'[k].fin = x /\ client'[k].got = client[k].got
                     /\ client'[k].eof = client[k].eof
                     => ReaderOf(k)' = [ReaderOf(k) EXCEPT !.closed = x]
           /\ \A x : /\ client'[k].fin = client[k].fin /\ client'[k].got = x
                     /\ client'[k].eof = client[k].eof
                     => ReaderOf(k)' = [ReaderOf(k) EXCEPT !.got = x]
           /\ \A x : /\ client'[k].fin = client[k].fin /\ client'[k].got = client[k].got
                     /\ client'[k].eof = x
                     => ReaderOf(k)' = [ReaderOf(k) EXCEPT !.eof = x]
  BY DEF ReaderOf

LEMMA ReaderHolds ==
    ASSUME GatewayTypeOK, GatewayTypeOK', PairedInv, NEW k \in Keys, OnlyReader(k), Holds(k)
    PROVE  ReaderStep(k) \/ UNCHANGED Streams!streamVars
  <1>1. client[k].fin \in BOOLEAN /\ client'[k].fin \in BOOLEAN
    BY Numbers DEF GatewayTypeOK, ClientEnd
  <1>2. CASE client'[k].fin = client[k].fin
    <2>1. ReaderOf(k)' = ReaderOf(k)
      BY <1>2 DEF ReaderOf, Holds
    <2>2. \A j \in Keys : ReaderOf(j)' = ReaderOf(j)
      BY <2>1 DEF OnlyReader, ReaderOf
    <2>3. \A c \in Attempts : PipeOf(c)' = PipeOf(c)
      BY DEF OnlyReader, PipeOf
    <2> QED BY <2>2, <2>3, Rests DEF OnlyReader
  <1>3. CASE client'[k].fin /\ ~client[k].fin
    <2>1. client[k].st = "established"
      BY <1>3 DEF Holds
    <2>2. client[k].peer # 0
      BY <2>1, ZeroIsNoAttempt DEF PairedInv, Begun
    <2>3. ReaderOf(k)' = [ReaderOf(k) EXCEPT !.closed = TRUE]
      <3>1. client'[k].fin = TRUE
        BY <1>1, <1>3
      <3>2. /\ client'[k].isn = client[k].isn /\ client'[k].peer = client[k].peer
            /\ client'[k].got = client[k].got /\ client'[k].eof = client[k].eof
        BY DEF Holds
      <3> QED BY <3>1, <3>2, ReaderBecomes, Zenon
    <2>4. Streams!Change(k, [ReaderOf(k) EXCEPT !.closed = TRUE])
      BY <2>3, Changes
    <2>5. ReaderOf(k).from # 0 /\ ~ReaderOf(k).closed
      BY <1>3, <2>2 DEF ReaderOf
    <2>6. Streams!Closes(k)
      BY <2>4, <2>5, ReaderIs DEF Streams!Closes
    <2> QED BY <2>6 DEF ReaderStep
  <1> QED BY <1>1, <1>2, <1>3 DEF Holds

LEMMA ReaderJoins ==
    ASSUME GatewayTypeOK, PairedInv, UnitsInv, NEW k \in Keys, OnlyReader(k), Joins(k)
    PROVE  ReaderStep(k)
  <1>1. PICK s : s = Head(toClient[k])
    OBVIOUS
  <1>2. 1 \in 1..Len(toClient[k]) /\ toClient[k][1] = s
    BY <1>1, Numbers DEF Joins
  <1>3. PICK c : c = s.seq[1] /\ Begun(c, k, client[k].isn)
    BY <1>1, <1>2 DEF Joins, PairedInv
  <1>4. client[k].peer = 0
    BY DEF Joins, UnitsInv, Drafts
  <1>5. c \in Attempts /\ PipeOf(c).owner = <<k, client[k].isn>>
    BY <1>3 DEF Begun, PipeOf
  <1>6. ReaderOf(k)' = [ReaderOf(k) EXCEPT !.from = c]
    BY <1>1, <1>3 DEF ReaderOf, Joins
  <1>7. Streams!Change(k, [ReaderOf(k) EXCEPT !.from = c])
    BY <1>6, Changes
  <1>8. ReaderOf(k).from = 0 /\ ReaderOf(k).use = client[k].isn
    BY <1>4 DEF ReaderOf
  <1>9. Streams!IsJoined(k, c)
    BY <1>5, <1>7, <1>8, ReaderIs DEF Streams!IsJoined
  <1> QED BY <1>5, <1>9 DEF ReaderStep

LEMMA ReaderGets ==
    ASSUME GatewayTypeOK, GatewayTypeOK', PairedInv, DownInv, UnitsInv,
           NEW k \in Keys, OnlyReader(k), Gets(k)
    PROVE  ReaderStep(k)
  <1>1. PICK n \in Nat : \E s, c : NextIs(k, s, n, c)
    BY NextUnit DEF NextIs
  <1>2. PICK s, c : NextIs(k, s, n, c)
    BY <1>1
  <1>3. /\ s = Head(toClient[k]) /\ n = client[k].rcv /\ c = client[k].peer
        /\ OnWayDown(k, s) /\ s.seq = <<c, n>> /\ s.f \in {"DATA", "FIN"}
        /\ c \in Attempts /\ conn[c].key = k /\ conn[c].isn = client[k].isn
        /\ n > 0 /\ ~client[k].eof /\ client[k].got = [i \in 1..(n - 1) |-> i]
    BY <1>2 DEF NextIs
  <1>4. Len(client[k].got) = n - 1 /\ client[k].got \in Seq(Nat)
    BY <1>3, Numbers
  <1>5. ReaderOf(k).from = c /\ ~ReaderOf(k).eof /\ ReaderOf(k).got = client[k].got
    BY <1>3 DEF ReaderOf
  <1>6. client[k].eof \in BOOLEAN /\ client'[k].eof \in BOOLEAN
    BY Numbers DEF GatewayTypeOK, ClientEnd
  <1>7. CASE s.f = "DATA"
    <2>1. 1 \in 1..Len(toClient[k]) /\ toClient[k][1] = s
      BY <1>3, Numbers DEF Gets
    <2>2. n <= host[c].sent
      BY <1>3, <1>7, <2>1 DEF UnitsInv, UnitsDown, OnWayDown
    <2>3. Len(client[k].got) < host[c].sent
      BY <1>4, <2>2, <1>3, Numbers
    <2>4. client'[k].got = Append(client[k].got, n)
      <3>1. s.unit = n
        BY <1>3, <1>7 DEF OnWayDown
      <3> QED BY <1>3, <1>7, <3>1 DEF Gets
    <2>5. n = Len(client[k].got) + 1
      BY <1>4
    <2>6. ReaderOf(k)' = [ReaderOf(k) EXCEPT !.got = Append(@, Len(@) + 1)]
      <3>1. client'[k].eof = client[k].eof
        BY <1>3, <1>7, <1>6 DEF Gets
      <3>2. client'[k].got = Append(client[k].got, Len(client[k].got) + 1)
        BY <2>4, <2>5
      <3>3. /\ client'[k].isn = client[k].isn /\ client'[k].peer = client[k].peer
            /\ client'[k].fin = client[k].fin
        BY DEF Gets
      <3>4. ReaderOf(k).got = client[k].got
        BY DEF ReaderOf
      <3> QED BY <3>1, <3>2, <3>3, <3>4, ReaderBecomes, Zenon
    <2>7. Streams!Change(k, [ReaderOf(k) EXCEPT !.got = Append(@, Len(@) + 1)])
      BY <2>6, Changes
    <2>8. PipeOf(c).sent = host[c].sent
      BY DEF PipeOf
    <2>9. Streams!Reads(k, c)
      BY <1>3, <1>5, <2>3, <2>7, <2>8, ReaderIs DEF Streams!Reads
    <2> QED BY <1>3, <2>9 DEF ReaderStep
  <1>8. CASE s.f = "FIN"
    <2>1. AllSent(c, n - 1)
      BY <1>3, <1>8 DEF OnWayDown
    <2>2. Len(client[k].got) = host[c].sent \/ host[c].broken \/ client[k].fin
      BY <1>3, <1>4, <2>1, Numbers DEF AllSent, Moved
    <2>3. client'[k].got = client[k].got /\ client'[k].eof = TRUE
      BY <1>3, <1>8, <1>6 DEF Gets
    <2>4. ReaderOf(k)' = [ReaderOf(k) EXCEPT !.eof = TRUE]
      <3>1. /\ client'[k].isn = client[k].isn /\ client'[k].peer = client[k].peer
            /\ client'[k].fin = client[k].fin
        BY DEF Gets
      <3> QED BY <2>3, <3>1, ReaderBecomes, Zenon
    <2>5. Streams!Change(k, [ReaderOf(k) EXCEPT !.eof = TRUE])
      BY <2>4, Changes
    <2>6. /\ PipeOf(c).sent = host[c].sent /\ PipeOf(c).broken = host[c].broken
          /\ ReaderOf(k).closed = client[k].fin
      BY DEF PipeOf, ReaderOf
    <2>7. Streams!SeesEnd(k, c)
      BY <1>3, <1>5, <2>2, <2>5, <2>6, ReaderIs DEF Streams!SeesEnd
    <2> QED BY <1>3, <2>7 DEF ReaderStep
  <1> QED BY <1>3, <1>7, <1>8

LEMMA ReaderRefines ==
    ASSUME GatewayTypeOK, GatewayTypeOK', PairedInv, DownInv, UnitsInv, [Next]_vars,
           NEW k \in Keys, OnlyReader(k)
    PROVE  ReaderStep(k) \/ UNCHANGED Streams!streamVars
  <1>1. CASE client'[k] = NewClient("synsent", client[k].isn + 1)
    <2>1. ReaderOf(k)' = Streams!Program(client[k].isn + 1)
      BY <1>1 DEF ReaderOf, NewClient, Streams!Program
    <2>2. Streams!Change(k, Streams!Program(client[k].isn + 1))
      BY <2>1, Changes
    <2>3. ReaderOf(k).use = client[k].isn
      BY DEF ReaderOf
    <2>4. Streams!Comes(k)
      BY <2>2, <2>3, ReaderIs DEF Streams!Comes
    <2> QED BY <2>4 DEF ReaderStep
  <1> QED BY <1>1, StepOfReader, ReaderHolds, ReaderJoins, ReaderGets DEF ClientStep

\* What a step does to a connection.
PipeStep(c) ==
    \/ Streams!Sends(c) \/ Streams!Breaks(c)
    \/ \E k \in Keys : \E use \in 0..client[k].isn : Streams!IsMade(c, k, use)
    \/ \E n \in 1..MaxUp : Streams!Takes(c, n)

LEMMA PipeIs == \A c \in Attempts : [d \in Attempts |-> PipeOf(d)][c] = PipeOf(c)
  OBVIOUS

LEMMA PipeRests ==
    ASSUME NEW c \in Attempts, OnlyPipe(c), PipeOf(c)' = PipeOf(c)
    PROVE  UNCHANGED Streams!streamVars
  <1>1. \A d \in Attempts : PipeOf(d)' = PipeOf(d)
    BY DEF OnlyPipe, PipeOf
  <1>2. \A k \in Keys : ReaderOf(k)' = ReaderOf(k)
    BY DEF OnlyPipe, ReaderOf
  <1> QED BY <1>1, <1>2, Rests DEF OnlyPipe

\* The gateway goes on with an attempt: its streams stay.
SameStreams(c) == /\ conn[c].at # "unused" <=> conn'[c].at # "unused"
                  /\ conn[c].at # "unused" => SameName(c)
                  /\ host'[c].sent = host[c].sent /\ host'[c].broken = host[c].broken
                  /\ host'[c].got = host[c].got

LEMMA SamePipe ==
    ASSUME NEW c, SameStreams(c)
    PROVE  PipeOf(c)' = PipeOf(c)
  <1>1. CASE conn[c].at = "unused"
    BY <1>1 DEF PipeOf, SameStreams
  <1>2. CASE conn[c].at # "unused"
    BY <1>2 DEF PipeOf, SameStreams, SameName
  <1> QED BY <1>1, <1>2

\* One field of a connection's record changes.
LEMMA PipeBecomes ==
    ASSUME NEW c
    PROVE  /\ \A x : /\ conn[c].at = "unused" /\ conn'[c].at # "unused"
                     /\ <<conn'[c].key, conn'[c].isn>> = x /\ host'[c] = host[c]
                     => PipeOf(c)' = [PipeOf(c) EXCEPT !.owner = x]
           /\ \A x : /\ conn[c].at # "unused" /\ conn'[c].at # "unused" /\ SameName(c)
                     /\ host'[c].sent = x /\ host'[c].broken = host[c].broken
                     /\ host'[c].got = host[c].got
                     => PipeOf(c)' = [PipeOf(c) EXCEPT !.sent = x]
           /\ \A x : /\ conn[c].at # "unused" /\ conn'[c].at # "unused" /\ SameName(c)
                     /\ host'[c].sent = host[c].sent /\ host'[c].broken = x
                     /\ host'[c].got = host[c].got
                     => PipeOf(c)' = [PipeOf(c) EXCEPT !.broken = x]
           /\ \A x : /\ conn[c].at # "unused" /\ conn'[c].at # "unused" /\ SameName(c)
                     /\ host'[c].sent = host[c].sent /\ host'[c].broken = host[c].broken
                     /\ host'[c].got = x
                     => PipeOf(c)' = [PipeOf(c) EXCEPT !.taken = x]
  BY DEF PipeOf, SameName

LEMMA PipeBegins ==
    ASSUME GatewayTypeOK, GatewayTypeOK', UpInv, NEW c \in Attempts, NEW k \in Keys,
           OnlyPipe(c), Begins(c, k)
    PROVE  PipeStep(c)
  <1>1. PICK s : s = Head(toGw[k])
    OBVIOUS
  <1>2. 1 \in 1..Len(toGw[k]) /\ toGw[k][1] = s /\ s.f \in Numbered
    BY <1>1, Numbers DEF Begins, Reads, Numbered
  <1>3. PICK use \in Nat : use = s.seq[1]
    BY <1>2, Numbers
  <1>4. use <= client[k].isn
    BY <1>2, <1>3 DEF UpInv, InSequence
  <1>5. use \in 0..client[k].isn
    BY <1>3, <1>4, Numbers
  <1>6. /\ conn[c].at = "unused" /\ conn'[c].at # "unused" /\ host'[c] = host[c]
        /\ <<conn'[c].key, conn'[c].isn>> = <<k, use>>
    BY <1>1, <1>3 DEF Begins
  <1>7. PipeOf(c)' = [PipeOf(c) EXCEPT !.owner = <<k, use>>]
    BY <1>6, PipeBecomes, Zenon
  <1>8. Streams!Alter(c, [PipeOf(c) EXCEPT !.owner = <<k, use>>])
    BY <1>7, Alters
  <1>9. PipeOf(c).owner = <<>>
    BY <1>6 DEF PipeOf
  <1>10. Streams!IsMade(c, k, use)
    BY <1>8, <1>9, PipeIs DEF Streams!IsMade
  <1> QED BY <1>5, <1>10 DEF PipeStep

LEMMA PipeTalks ==
    ASSUME GatewayTypeOK, DownInv, NEW c \in Attempts, OnlyPipe(c), HostTalks(c),
           PipeOf(c)' # PipeOf(c)
    PROVE  PipeStep(c)
  <1>1. /\ conn[c].at # "unused" /\ conn'[c].at # "unused" /\ SameName(c)
        /\ host'[c].got = host[c].got
    BY DEF HostTalks, SameConn, SameName
  <1>2. ~Streams!EndSeen(c)
    <2>1. \A k \in Keys : ~(client[k].eof /\ client[k].peer = c)
      BY DEF HostTalks, DownInv, Received
    <2>2. \A k \in Keys : ~(ReaderOf(k).from = c /\ ReaderOf(k).eof)
      BY <2>1 DEF ReaderOf
    <2> QED BY <2>2, ReaderIs DEF Streams!EndSeen
  <1>3. ~(host'[c].sent = host[c].sent /\ host'[c].broken = host[c].broken)
    BY <1>1, SamePipe DEF SameStreams
  <1>4. /\ PipeOf(c).owner # <<>>
        /\ PipeOf(c).broken = host[c].broken /\ PipeOf(c).sent = host[c].sent
    BY <1>1 DEF PipeOf
  <1>5. CASE /\ host'[c].sent = host[c].sent + 1 /\ host'[c].broken = host[c].broken
             /\ ~host[c].broken
    <2>1. PipeOf(c)' = [PipeOf(c) EXCEPT !.sent = PipeOf(c).sent + 1]
      <3>1. host'[c].sent = PipeOf(c).sent + 1
        BY <1>4, <1>5
      <3> QED BY <1>1, <1>5, <3>1, PipeBecomes, Zenon
    <2>2. Streams!Alter(c, [PipeOf(c) EXCEPT !.sent = PipeOf(c).sent + 1])
      BY <2>1, Alters
    <2>3. Streams!Sends(c)
      BY <1>2, <1>4, <1>5, <2>2, PipeIs DEF Streams!Sends
    <2> QED BY <2>3 DEF PipeStep
  <1>6. CASE host'[c].sent = host[c].sent /\ host'[c].broken = TRUE /\ ~host[c].broken
    <2>1. PipeOf(c)' = [PipeOf(c) EXCEPT !.broken = TRUE]
      BY <1>1, <1>6, PipeBecomes, Zenon
    <2>2. Streams!Alter(c, [PipeOf(c) EXCEPT !.broken = TRUE])
      BY <2>1, Alters
    <2>3. Streams!Breaks(c)
      BY <1>2, <1>4, <1>6, <2>2, PipeIs DEF Streams!Breaks
    <2> QED BY <2>3 DEF PipeStep
  <1> QED BY <1>3, <1>5, <1>6 DEF HostTalks

LEMMA PipeTakes ==
    ASSUME GatewayTypeOK, GatewayTypeOK', OnePerKey, DownInv, ReachInv, UpInv, UnitsInv,
    OrderInv',
           [Next]_vars, NEW c \in Attempts, NEW k \in Keys, OnlyPipe(c), PassesUp(c, k),
           ~host[c].shut
    PROVE  PipeStep(c)
  <1>1. /\ conn[c].at = "up" /\ conn[c].key = k /\ SameConn(c) /\ InUse(c)
        /\ toGw[k] # <<>> /\ Head(toGw[k]).f = "DATA"
        /\ host'[c].got = Append(host[c].got, Head(toGw[k]).seq)
        /\ host'[c].sent = host[c].sent /\ host'[c].broken = host[c].broken
    BY DEF PassesUp, Reads, InUse
  <1>2. PICK s \in UpSegment : s = Head(toGw[k]) /\ s = toGw[k][1] /\ 1 \in 1..Len(toGw[k])
    BY <1>1, Numbers
  <1>3. PICK b \in Nat : b = conn[c].isn
    BY Numbers
  <1>4. PICK n \in Nat : n = s.seq[2]
    BY Numbers
  <1>5. n \in 1..MaxUp
    BY <1>1, <1>2, <1>4 DEF UnitsInv, UnitsUp
  <1>6. s.seq = <<b, n>>
    <2>1. 1 \in InStream(k)
      BY <1>1, <1>2 DEF InStream
    <2>2. s.seq[1] = b
      BY <1>1, <1>2, <1>3, <2>1, StreamIsCurrent
    <2>3. PICK x \in Initial, y \in Nat : s.seq = <<x, y>>
      BY DEF UpSegment, SeqNo
    <2>4. <<x, y>>[1] = b /\ <<x, y>>[2] = n
      BY <1>4, <2>2, <2>3, Zenon
    <2> QED BY <2>3, <2>4
  <1>7. host'[c].got = Append(host[c].got, <<b, n>>)
    BY <1>1, <1>2, <1>6
  <1>8. ASSUME faults = 0, Streams!Alone(c) PROVE n = Len(host[c].got) + 1
    <2>1. ~Twice(c)'
      <3> SUFFICES ASSUME Twice(c)' PROVE FALSE
        OBVIOUS
      <3>1. PICK d \in Attempts : /\ d # c /\ conn'[d].snext > 0
                                  /\ conn'[d].key = conn'[c].key /\ conn'[d].isn = conn'[c].isn
        BY DEF Twice
      <3>2. conn'[d] = conn[d] /\ HostOf(d)
        BY <3>1 DEF OnlyPipe, DownInv
      <3>3. conn[d].at # "unused"
        BY <3>1, <3>2 DEF HostOf
      <3>4. PipeOf(d).owner = PipeOf(c).owner
        BY <1>1, <3>1, <3>2, <3>3 DEF PipeOf, SameConn
      <3>5. PipeOf(d).owner # PipeOf(c).owner
        BY <1>8, <3>1, PipeIs DEF Streams!Alone
      <3> QED BY <3>4, <3>5
    <2>2. InOrderOf(c)'
      BY <1>8, <2>1 DEF OrderInv, OnlyPipe
    <2>3. PICK m \in Nat : m = Len(host[c].got)
      BY Numbers
    <2>4. PICK x : x = <<b, n>>
      OBVIOUS
    <2>5. Len(host'[c].got) = m + 1 /\ host'[c].got[m + 1] = x
      BY <1>7, <2>3, <2>4, Numbers
    <2>6. host'[c].got = [i \in 1..(m + 1) |-> <<conn'[c].isn, i>>]
      BY <2>2, <2>5 DEF InOrderOf
    <2>7. x = <<conn'[c].isn, m + 1>>
      BY <2>5, <2>6
    <2>8. n = m + 1
      BY <2>4, <2>7
    <2> QED BY <2>3, <2>8
  <1>9. PipeOf(c).owner = <<k, b>> /\ PipeOf(c).taken = host[c].got
    BY <1>1, <1>3 DEF PipeOf
  <1>10. PipeOf(c).owner[2] = b /\ PipeOf(c).owner # <<>>
    BY <1>9
  <1>11. PipeOf(c)' = [PipeOf(c) EXCEPT
              !.taken = Append(PipeOf(c).taken, <<PipeOf(c).owner[2], n>>)]
    <2>1. host'[c].got = Append(PipeOf(c).taken, <<PipeOf(c).owner[2], n>>)
      BY <1>7, <1>9, <1>10
    <2>2. conn[c].at # "unused" /\ conn'[c].at # "unused" /\ SameName(c)
      BY <1>1 DEF SameConn, SameName
    <2> QED BY <1>1, <2>1, <2>2, PipeBecomes, Zenon
  <1>12. Streams!Alter(c, [PipeOf(c) EXCEPT
              !.taken = Append(PipeOf(c).taken, <<PipeOf(c).owner[2], n>>)])
    BY <1>11, Alters
  <1>13. Streams!Takes(c, n)
    BY <1>8, <1>9, <1>10, <1>12, PipeIs DEF Streams!Takes
  <1> QED BY <1>5, <1>13 DEF PipeStep

LEMMA PipeRefines ==
    ASSUME GatewayTypeOK, GatewayTypeOK', OnePerKey, DownInv, ReachInv, UpInv, UnitsInv,
    OrderInv',
           [Next]_vars, NEW c \in Attempts, OnlyPipe(c)
    PROVE  PipeStep(c) \/ UNCHANGED Streams!streamVars
  <1>1. AttemptStep(c)
    BY StepOfConn
  <1>2. CASE PipeOf(c)' = PipeOf(c)
    BY <1>2, PipeRests
  <1>3. CASE SameStreams(c)
    BY <1>2, <1>3, SamePipe
  <1>4. ASSUME NEW k \in Keys, PassesUp(c, k) PROVE PipeStep(c) \/ SameStreams(c)
    <2>1. CASE host[c].shut
      BY <1>4, <2>1 DEF PassesUp, SameConn, SameName, SameStreams
    <2> QED BY <1>4, <2>1, PipeTakes
  <1>5. \/ SameConn(c) /\ host'[c] = host[c]
        \/ \E k \in Keys : Shuts(c, k) \/ Cut(c, k)
        \/ Waits(c) \/ Opens(c) \/ PassesDown(c) \/ Ends(c)
        => SameStreams(c)
    BY DEF SameStreams, SameConn, Shuts, Cut, Waits, Opens, PassesDown, Ends, SameName
  <1> QED BY <1>1, <1>2, <1>3, <1>4, <1>5, PipeBegins, PipeTalks DEF AttemptStep

LEMMA StepRefines ==
    ASSUME GatewayTypeOK, GatewayTypeOK', OnePerKey, PairedInv, DownInv, ReachInv, UpInv,
           UnitsInv, OrderInv', [Next]_vars
    PROVE  [Streams!StreamNext]_Streams!streamVars
  <1>1. ASSUME NEW k \in Keys, OnlyReader(k) PROVE [Streams!StreamNext]_Streams!streamVars
    <2>1. ReaderStep(k) \/ UNCHANGED Streams!streamVars
      BY <1>1, ReaderRefines
    <2>2. ReaderStep(k) => Streams!StreamNext
      BY DEF ReaderStep, Streams!StreamNext
    <2> QED BY <2>1, <2>2
  <1>2. ASSUME NEW c \in Attempts, OnlyPipe(c) PROVE [Streams!StreamNext]_Streams!streamVars
    <2>1. PipeStep(c) \/ UNCHANGED Streams!streamVars
      BY <1>2, PipeRefines
    <2>2. PipeStep(c) => Streams!StreamNext
      <3>1. \A k \in Keys : ReaderOf(k).use = client[k].isn
        BY DEF ReaderOf
      <3> QED BY <3>1, ReaderIs DEF PipeStep, Streams!StreamNext
    <2> QED BY <2>1, <2>2
  <1>3. CASE faults' > 0 /\ UNCHANGED <<conn, host, client>>
    <2>1. \A k \in Keys : ReaderOf(k)' = ReaderOf(k)
      BY <1>3 DEF ReaderOf
    <2>2. \A c \in Attempts : PipeOf(c)' = PipeOf(c)
      BY <1>3 DEF PipeOf
    <2>3. [k \in Keys |-> ReaderOf(k)]' = [k \in Keys |-> ReaderOf(k)]
      BY <2>1
    <2>4. [c \in Attempts |-> PipeOf(c)]' = [c \in Attempts |-> PipeOf(c)]
      BY <2>2
    <2>5. (faults = 0)' = FALSE
      BY <1>3, Numbers DEF GatewayTypeOK
    <2>6. Streams!Fails
      BY <2>3, <2>4, <2>5 DEF Streams!Fails
    <2> QED BY <2>6 DEF Streams!StreamNext
  <1> QED BY <1>1, <1>2, <1>3, StepIsOfOne

LEMMA InitRefines == Init => Streams!StreamInit
  <1> SUFFICES ASSUME Init PROVE Streams!StreamInit
    OBVIOUS
  <1>1. \A k \in Keys : ReaderOf(k) = Streams!Program(0)
    BY DEF Init, ReaderOf, NewClient, Streams!Program
  <1>2. \A c \in Attempts :
            PipeOf(c) = [owner |-> <<>>, sent |-> 0, broken |-> FALSE, taken |-> <<>>]
    BY DEF Init, PipeOf
  <1>3. (faults = 0) = TRUE
    BY DEF Init
  <1> QED BY <1>1, <1>2, <1>3 DEF Streams!StreamInit

\* KeepsStreams: the gateway implements ByteStreams.
THEOREM StreamsKept == Spec => KeepsStreams
  <1>1. (/\ GatewayTypeOK /\ GatewayTypeOK' /\ OnePerKey /\ PairedInv /\ DownInv
         /\ ReachInv /\ UpInv /\ UnitsInv /\ OrderInv') /\ [Next]_vars
            => [Streams!StreamNext]_Streams!streamVars
    BY StepRefines
  <1> QED BY <1>1, InitRefines, UnitsInvariant, PairedInvariant, UpInvariant, DownInvariant,
             ReachInvariant, OrderInvariant, GatewayTyped, OneRelayPerKey, PTL
         DEF Spec, KeepsStreams, Streams!StreamSpec
=============================================================================
