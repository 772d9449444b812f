---------------------------- MODULE UdpGateway ----------------------------
(***************************************************************************)
(* Datagrams in the gateway of a sandbox (_tun_gateway.py), and the names  *)
(* under which the user is asked about them.  Each datagram the gateway    *)
(* reads is handled by a task of its own (_on_readable, _handle_udp), so   *)
(* that the handlers interleave at their awaits.  They share _dns_cache,   *)
(* which learns from the DNS replies that pass through (DnsReply says how  *)
(* a reply is read) and gives _gate the name to show for an address.       *)
(*                                                                         *)
(* What is sent to port 53 goes to the host's resolver whatever its        *)
(* address, and nobody is asked (docs/network-isolation.md says so).       *)
(*                                                                         *)
(* The host's resolver, the hosts and the user are external.  A program    *)
(* in the sandbox learns an address of a name from the reply that the      *)
(* gateway injects.                                                        *)
(***************************************************************************)
CONSTANTS
    Datagrams,  \* what the sandbox sends
    Addresses,  \* addresses of the network
    Names,      \* host names
    HostIP,     \* _HOST_IP, the alias of the host
    Resolver,   \* _host_dns with port 53, the host's resolver
    None

ASSUME Apart == /\ Addresses \cap Names = {}
                /\ {HostIP, Resolver} \cap Addresses = {} /\ HostIP # Resolver
                /\ None \notin Addresses \cup Names

VARIABLES
    cache,      \* _dns_cache: the name of each address, or None
    upc,        \* where the handler of a datagram is
    to,         \* where the datagram is to go: its address, Resolver if its port is 53
    display,    \* the name that _gate has for it
    allowed,    \* labels under which the user has let a datagram pass
    left,       \* <<datagram, destination>> of what was sent to the network
    told,       \* <<address, name>> in the replies injected so far
    found,      \* <<address, name>> that the reverse lookup has found
    knew        \* told, when the handler of the datagram began

udpVars == <<cache, upc, to, display, allowed, left, told, found, knew>>

Labels == Addresses \cup Names
Known == Addresses \X Names
Destinations == Addresses \cup {HostIP, Resolver}

UdpTypeOK ==
    /\ cache \in [Addresses -> Names \cup {None}]
    /\ upc \in [Datagrams -> {"unsent", "resolving", "lookup", "asking", "sent", "done"}]
    /\ to \in [Datagrams -> Destinations]
    /\ display \in [Datagrams -> Labels \cup {None}]
    /\ allowed \subseteq Datagrams \X Labels
    /\ left \subseteq Datagrams \X Destinations
    /\ told \subseteq Known /\ found \subseteq Known
    /\ knew \in [Datagrams -> SUBSET Known]

UdpInit ==
    /\ cache = [a \in Addresses |-> None]
    /\ upc = [d \in Datagrams |-> "unsent"]
    /\ to = [d \in Datagrams |-> HostIP]
    /\ display = [d \in Datagrams |-> None]
    /\ allowed = {} /\ left = {} /\ told = {} /\ found = {}
    /\ knew = [d \in Datagrams |-> {}]

Moves(d, from, next) == upc[d] = from /\ upc' = [upc EXCEPT ![d] = next]

Sends(d, a) == left' = left \cup {<<d, a>>}

-----------------------------------------------------------------------------
(* DNS: port 53, whatever the destination.                                 *)

\* The query is sent to the host's resolver, and nobody is asked.
Query(d) ==
    /\ Moves(d, "unsent", "resolving")
    /\ to' = [to EXCEPT ![d] = Resolver]
    /\ Sends(d, Resolver)
    /\ UNCHANGED <<cache, display, allowed, told, found, knew>>

Learns(A, n) == cache' = [a \in Addresses |-> IF a \in A THEN n ELSE cache[a]]

\* Bug for a mutant: a reply that cannot be read is injected all the same.
ReplyUnread(d) ==
    /\ Moves(d, "resolving", "done")
    /\ \E n \in Names, A \in SUBSET Addresses :
        /\ Learns(A, n) \/ cache' = cache
        /\ told' = told \cup (A \X {n})
    /\ UNCHANGED <<to, display, allowed, left, found, knew>>

\* The reply gives the addresses A for the name n.  It is kept and injected with no
\* await in between.
Reply(d) ==
    /\ Moves(d, "resolving", "done")
    /\ \E n \in Names, A \in SUBSET Addresses :
        /\ Learns(A, n)
        /\ told' = told \cup (A \X {n})
    /\ UNCHANGED <<to, display, allowed, left, found, knew>>

\* No reply within 10 s, an error, or a reply that cannot be read: nothing is injected.
NoReply(d) ==
    /\ Moves(d, "resolving", "done")
    /\ UNCHANGED <<cache, to, display, allowed, left, told, found, knew>>

-----------------------------------------------------------------------------
(* Other ports.                                                            *)

\* Ports 80 and 443.
DropWeb(d) ==
    /\ Moves(d, "unsent", "done")
    /\ UNCHANGED <<cache, to, display, allowed, left, told, found, knew>>

\* To the host itself: not gated.
SendToHost(d) ==
    /\ Moves(d, "unsent", "sent")
    /\ Sends(d, HostIP)
    /\ UNCHANGED <<cache, to, display, allowed, told, found, knew>>

Gated(d, a, next) ==
    /\ Moves(d, "unsent", next)
    /\ to' = [to EXCEPT ![d] = a]
    /\ knew' = [knew EXCEPT ![d] = told]
    /\ UNCHANGED <<cache, allowed, left, told, found>>

\* _gate: the cache has a name for the address, and the server is asked.
AskByName(d, a) ==
    /\ cache[a] # None
    /\ Gated(d, a, "asking")
    /\ display' = [display EXCEPT ![d] = cache[a]]

\* It has none: gethostbyaddr runs in an executor.
LookUp(d, a) ==
    /\ cache[a] = None
    /\ Gated(d, a, "lookup")
    /\ UNCHANGED display

LookedUp(d) ==
    /\ Moves(d, "lookup", "asking")
    /\ \E n \in Names : /\ display' = [display EXCEPT ![d] = n]
                        /\ found' = found \cup {<<to[d], n>>}
    /\ UNCHANGED <<cache, to, allowed, left, told, knew>>

NoName(d) ==
    /\ Moves(d, "lookup", "asking")
    /\ display' = [display EXCEPT ![d] = to[d]]
    /\ UNCHANGED <<cache, to, allowed, left, told, found, knew>>

\* The answer to the post is to allow; the datagram is sent on.
Allow(d) ==
    /\ Moves(d, "asking", "sent")
    /\ allowed' = allowed \cup {<<d, display[d]>>}
    /\ Sends(d, to[d])
    /\ UNCHANGED <<cache, to, display, told, found, knew>>

\* Bug for a mutant: whatever is not a refusal lets the datagram pass.
RefuseOnly(d) ==
    /\ \/ Moves(d, "asking", "done") /\ UNCHANGED left
       \/ Moves(d, "asking", "sent") /\ Sends(d, to[d])
    /\ UNCHANGED <<cache, to, display, allowed, told, found, knew>>

\* It is to block, or there is none within 70 s, or an error.
Withhold(d) ==
    /\ Moves(d, "asking", "done")
    /\ UNCHANGED <<cache, to, display, allowed, left, told, found, knew>>

\* One reply of the host is injected, or none comes within 30 s.
Finish(d) ==
    /\ Moves(d, "sent", "done")
    /\ UNCHANGED <<cache, to, display, allowed, left, told, found, knew>>

-----------------------------------------------------------------------------
UdpNext ==
    \E d \in Datagrams :
        \/ Query(d) \/ Reply(d) \/ NoReply(d)
        \/ DropWeb(d) \/ SendToHost(d) \/ Finish(d)
        \/ \E a \in Addresses : AskByName(d, a) \/ LookUp(d, a)
        \/ LookedUp(d) \/ NoName(d) \/ Allow(d) \/ Withhold(d)

UdpSpec == UdpInit /\ [][UdpNext]_udpVars

-----------------------------------------------------------------------------
(* Properties                                                              *)

NamesIn(K, a) == {n \in Names : <<a, n>> \in K}

\* A program that has an address from a DNS reply, and uses it at once, has the user
\* asked by a name that DNS gave the address, never by the bare address and never by a
\* name of the reverse lookup, however handlers overlap (_handle_udp, _gate).
AskedByName ==
    \A d \in Datagrams :
        display[d] # None /\ NamesIn(knew[d], to[d]) # {} =>
            display[d] \in NamesIn(knew[d], to[d])

\* A datagram is sent only to where it is to go: DNS to the host's resolver, unasked, and
\* what is for the host's alias to the host.  Anywhere else it goes only if the user let it
\* pass under that address, or under a name that DNS or the reverse lookup gave that very
\* address (_gate, _handle_udp).
SentAsShown ==
    \A d \in Datagrams : \A a \in Destinations : <<d, a>> \in left =>
        /\ a = to[d]
        /\ \/ a \in {HostIP, Resolver}
           \/ \E l \in {a} \cup NamesIn(told \cup found, a) : <<d, l>> \in allowed
=============================================================================
