----------------------------- MODULE Checksum -----------------------------
(***************************************************************************)
(* The Internet checksum of the packets that the gateway builds (_cksum of *)
(* _tun_gateway.py).  The 16-bit words of a packet are abstracted to their *)
(* sum, which is all that _cksum uses; odd data gets a zero byte.  The     *)
(* receiver adds up the same words with the checksum in its field, and     *)
(* takes the packet if the checksum of that is zero.                       *)
(***************************************************************************)
EXTENDS Integers

Word == 65536

CONSTANT Sums   \* sums of the words of packets, the checksum's field being zero

\* The words of a packet and its pseudo header are fewer than 65535.
ASSUME PacketsAreShort == Sums \subseteq Nat /\ \A s \in Sums : s \div Word < Word - 1

VARIABLE sum    \* of the packet at hand

SumInit == sum = 0
SumNext == sum = 0 /\ sum' \in Sums
SumSpec == SumInit /\ [][SumNext]_sum

Fold(s) == (s \div Word) + (s % Word)

\* Bug for a mutant: the carry of the first addition is dropped.
FoldOnce(s) == (Word - 1) - (Fold(s) % Word)

\* _cksum: two foldings, the second of which needs no mask as the complement has one.
Cksum(s) == LET t == Fold(s) IN (Word - 1) - ((t + (t \div Word)) % Word)

\* The receiver takes every packet that the gateway builds, whatever carries its words
\* give (_cksum, _mk_ip, _mk_tcp, _mk_udp).
ChecksumVerifies == Cksum(sum) \in 0..(Word - 1) /\ Cksum(sum + Cksum(sum)) = 0
=============================================================================
