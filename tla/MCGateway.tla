---------------------------- MODULE MCGateway -----------------------------
(* Bounded instances for TLC of the four modules about the gateway.  They  *)
(* share no state here, so one run checks them side by side: a part moves  *)
(* only while the others rest.                                             *)
EXTENDS TcpGateway, UdpGateway, DnsReply, Checksum

Carries == {0, 1, 2, 32766}
Lows == {0, 1, 2, 32767, 32768, 65533, 65534, 65535}
MCSums == {c * 65536 + l : c \in Carries, l \in Lows}

othersOfTcp == <<udpVars, dnsVars, sum>>
MCvars == <<vars, othersOfTcp>>

TcpRests == Init /\ dest = [k \in Keys |-> "gated"]
MCInit == Init /\ UdpInit /\ DnsInit /\ SumInit

TcpPart == UdpInit /\ DnsInit /\ SumInit /\ Next /\ UNCHANGED othersOfTcp
UdpPart == TcpRests /\ DnsInit /\ SumInit /\ UdpNext /\ UNCHANGED <<vars, dnsVars, sum>>
DnsPart == TcpRests /\ UdpInit /\ SumInit /\ DnsNext /\ UNCHANGED <<vars, udpVars, sum>>
SumPart == TcpRests /\ UdpInit /\ DnsInit /\ SumNext /\ UNCHANGED <<vars, udpVars, dnsVars>>

MCSpec == MCInit /\ [][TcpPart \/ UdpPart \/ DnsPart \/ SumPart]_MCvars /\ Fairness
=============================================================================
