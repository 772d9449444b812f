------------------------------ MODULE MCStreams ------------------------------
(* Bounded instance for TLC of TcpGateway with a lost or repeated segment and *)
(* with no awkward host, which MCGateway has.                                 *)
EXTENDS TcpGateway

\* A key that leads to the host's alias behaves like a gated one whose attempt is allowed
\* at once, and the properties ask no more of it, so it is left to MCGateway too.
MCInit == Init /\ dest \in [Keys -> {"gated", "web"}]

\* With Awkward empty this is Next: no host stalls, and no kernel drops a program's end.
MCNext ==
    \/ Gateway \/ Programs \/ Faults
    \/ \E c \in Attempts : HostSends(c) \/ HostCloses(c) \/ HostBreaks(c)
    \/ \E k \in Keys : ResendSyn(k) \/ ClientReceives(k) \/ Finished(k)

MCSpec == MCInit /\ [][MCNext]_vars
=============================================================================
