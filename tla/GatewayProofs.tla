--------------------------- MODULE GatewayProofs ---------------------------
(* Proofs about UdpGateway, Checksum and DnsReply. *)
EXTENDS UdpGateway, Checksum, DnsReply, SequenceTheorems, FiniteSetTheorems,
        WellFoundedInduction, TLAPS

-----------------------------------------------------------------------------
(* The checksum.                                                           *)

LEMMA WordIs == Word \in Nat /\ Word > 2
  BY DEF Word

\* The two parts of a number.
LEMMA HighLow ==
    ASSUME NEW s \in Nat
    PROVE  /\ s \div Word \in Nat /\ s % Word \in 0..(Word - 1)
           /\ s = Word * (s \div Word) + (s % Word)
  <1>1. s \div Word \in Nat
    BY SMT DEF Word
  <1>2. s % Word \in 0..(Word - 1)
    <2>1. s % Word \in Nat /\ s % Word < Word
      BY SMT DEF Word
    <2> QED BY <2>1, WordIs
  <1>3. s = Word * (s \div Word) + (s % Word)
    BY SMT DEF Word
  <1> QED BY <1>1, <1>2, <1>3

LEMMA FoldIsSmall ==
    ASSUME NEW s \in Nat, s \div Word < Word - 1
    PROVE  Fold(s) \in Nat /\ Fold(s) < 2 * Word - 2
  <1>1. Fold(s) \in Nat
    BY HighLow DEF Fold
  <1>2. Fold(s) < 2 * Word - 2
    BY SMT DEF Word, Fold
  <1> QED BY <1>1, <1>2

\* What the second folding leaves.
LEMMA SecondFold ==
    ASSUME NEW t \in Nat, t < 2 * Word - 2
    PROVE  (t + (t \div Word)) % Word = IF t < Word THEN t ELSE t + 1 - Word
  BY SMT DEF Word

LEMMA CksumIs ==
    ASSUME NEW s \in Nat, s \div Word < Word - 1
    PROVE  Cksum(s) = IF Fold(s) < Word THEN (Word - 1) - Fold(s)
                      ELSE (2 * Word - 2) - Fold(s)
  BY FoldIsSmall, SecondFold, SMT DEF Cksum, Word

\* The foldings of a sum with parts q and r.
Folded(q, r) == IF q + r < Word THEN (Word - 1) - (q + r) ELSE (2 * Word - 2) - (q + r)

LEMMA FoldedFits ==
    ASSUME NEW q \in Nat, NEW r \in 0..(Word - 1), q < Word - 1
    PROVE  Folded(q, r) \in 0..(Word - 1)
  <1>1. ASSUME q + r < Word PROVE (Word - 1) - (q + r) \in 0..(Word - 1)
    BY <1>1, WordIs
  <1>2. ASSUME ~(q + r < Word) PROVE (2 * Word - 2) - (q + r) \in 0..(Word - 1)
    BY <1>2, WordIs
  <1> QED BY <1>1, <1>2, Zenon DEF Folded

\* A number with parts d and m.
LEMMA Parts ==
    ASSUME NEW x \in Nat, NEW d \in Nat, NEW m \in 0..(Word - 1), x = Word * d + m
    PROVE  Fold(x) = d + m
  <1>1. x \div Word = d
    BY WordIs
  <1>2. PICK e \in Nat, n \in 0..(Word - 1) :
            e = x \div Word /\ n = x % Word /\ x = Word * e + n
    BY HighLow
  <1>3. n = m
    <2>1. Word * d + n = Word * d + m
      BY <1>1, <1>2
    <2> QED BY <2>1, WordIs
  <1> QED BY <1>1, <1>2, <1>3 DEF Fold

LEMMA FoldedAddsLow ==
    ASSUME NEW q \in Nat, NEW r \in Nat, NEW c \in Nat, q < Word,
           r + c = (Word - 1) - q,
           NEW x \in Nat, x = Word * q + r + c
    PROVE  Fold(x) = Word - 1
  <1>1. r + c \in 0..(Word - 1)
    BY WordIs
  <1>2. x = Word * q + (r + c)
    BY WordIs
  <1>3. Fold(x) = q + (r + c)
    BY <1>1, <1>2, Parts
  <1> QED BY <1>3, WordIs

LEMMA FoldedAddsHigh ==
    ASSUME NEW q \in Nat, NEW r \in Nat, NEW c \in Nat, q < Word - 1,
           r + c = (2 * Word - 2) - q,
           NEW x \in Nat, x = Word * q + r + c
    PROVE  Fold(x) = Word - 1
  <1>1. r + c - Word \in 0..(Word - 1) /\ q + 1 \in Nat
    BY WordIs
  <1>2. x = Word * (q + 1) + (r + c - Word)
    BY WordIs
  <1>3. Fold(x) = (q + 1) + (r + c - Word)
    BY <1>1, <1>2, Parts
  <1> QED BY <1>3, WordIs

\* With the checksum in its field the words fold to Word - 1.
LEMMA FoldsToOnes ==
    ASSUME NEW s \in Nat, s \div Word < Word - 1
    PROVE  /\ Cksum(s) \in 0..(Word - 1)
           /\ s + Cksum(s) \in Nat
           /\ Fold(s + Cksum(s)) = Word - 1
  <1>1. PICK q \in Nat, r \in 0..(Word - 1) :
            q = s \div Word /\ r = s % Word /\ s = Word * q + r
    BY HighLow
  <1>2. Cksum(s) = Folded(q, r)
    BY <1>1, CksumIs DEF Fold, Folded
  <1>3. Cksum(s) \in 0..(Word - 1)
    BY <1>1, <1>2, FoldedFits
  <1>4. PICK c \in 0..(Word - 1) : c = Cksum(s)
    BY <1>3
  <1>5. s + c \in Nat
    BY WordIs
  <1>5a. s + c = Word * q + r + c
    BY <1>1
  <1>6. q < Word - 1
    BY <1>1
  <1>6a. r \in Nat
    BY WordIs
  <1>6b. c \in Nat
    BY WordIs
  <1>7. CASE q + r < Word
    <2>1. c = (Word - 1) - (q + r)
      BY <1>2, <1>4, <1>7 DEF Folded
    <2>2. r + c = (Word - 1) - q
      BY <2>1, WordIs
    <2>3. q < Word
      BY <1>6, WordIs
    <2>4. Fold(s + c) = Word - 1
      BY <1>5, <1>5a, <1>6, <1>6a, <1>6b, <2>2, <2>3, FoldedAddsLow
    <2> QED BY <1>3, <1>4, <1>5, <2>4
  <1>8. CASE ~(q + r < Word)
    <2>1. c = (2 * Word - 2) - (q + r)
      BY <1>2, <1>4, <1>8 DEF Folded
    <2>2. r + c = (2 * Word - 2) - q
      BY <2>1, WordIs
    <2>3. Fold(s + c) = Word - 1
      BY <1>5, <1>5a, <1>6, <1>6a, <1>6b, <2>2, FoldedAddsHigh
    <2> QED BY <1>3, <1>4, <1>5, <2>3
  <1> QED BY <1>7, <1>8

LEMMA OnesVerify ==
    ASSUME NEW s \in Nat, Fold(s) = Word - 1
    PROVE  Cksum(s) = 0
  BY SMT DEF Cksum, Word

SumOK == sum \in Nat /\ sum \div Word < Word - 1

LEMMA SumInvariant == SumSpec => []SumOK
  <1>1. SumInit => SumOK
    BY SMT DEF SumInit, SumOK, Word
  <1>2. SumOK /\ [SumNext]_sum => SumOK'
    BY PacketsAreShort DEF SumNext, SumOK
  <1> QED BY <1>1, <1>2, PTL DEF SumSpec

\* Whatever the words of a packet add up to, the checksum that _cksum puts into it makes
\* the receiver's sum come out right.
THEOREM ChecksumIsRight == SumSpec => []ChecksumVerifies
  <1>1. SumOK => ChecksumVerifies
    <2> SUFFICES ASSUME SumOK PROVE ChecksumVerifies
      OBVIOUS
    <2>1. /\ Cksum(sum) \in 0..(Word - 1)
          /\ sum + Cksum(sum) \in Nat /\ Fold(sum + Cksum(sum)) = Word - 1
      BY FoldsToOnes DEF SumOK
    <2>2. Cksum(sum + Cksum(sum)) = 0
      BY <2>1, OnesVerify
    <2> QED BY <2>1, <2>2 DEF ChecksumVerifies
  <1> QED BY <1>1, SumInvariant, PTL
-----------------------------------------------------------------------------
(* Datagrams.                                                              *)

UdpStages == {"unsent", "resolving", "lookup", "asking", "sent", "done"}

TypeCache == cache \in [Addresses -> Names \cup {None}]
TypeStages == upc \in [Datagrams -> UdpStages]
TypeTo == to \in [Datagrams -> Destinations]
TypeDisplay == display \in [Datagrams -> Labels \cup {None}]
TypeSets == /\ allowed \subseteq Datagrams \X Labels /\ left \subseteq Datagrams \X Destinations
            /\ told \subseteq Known /\ found \subseteq Known
TypeKnew == knew \in [Datagrams -> SUBSET Known]

UdpTypes == TypeCache /\ TypeStages /\ TypeTo /\ TypeDisplay /\ TypeSets /\ TypeKnew

\* A datagram has a destination and a label as far as its handler has got.
Progress ==
    \A d \in Datagrams :
        /\ upc[d] = "unsent" => to[d] = HostIP /\ display[d] = None
        /\ upc[d] = "lookup" => to[d] \in Addresses /\ display[d] = None
        /\ upc[d] = "asking" => to[d] \in Addresses /\ display[d] \in Labels
        /\ \A a \in Destinations : <<d, a>> \in left => upc[d] \in {"resolving", "sent", "done"}

\* The cache has a name for the addresses that replies gave, one that they gave.
CacheTold ==
    \A a \in Addresses : /\ cache[a] # None => <<a, cache[a]>> \in told
                         /\ cache[a] = None => NamesIn(told, a) = {}

\* The reverse lookup is for addresses of which the program knows no name.
LookupUnknown ==
    \A d \in Datagrams : upc[d] = "lookup" => NamesIn(knew[d], to[d]) = {}

\* What the user is shown names the destination.
ShownNames ==
    \A d \in Datagrams : upc[d] = "asking" =>
        display[d] \in {to[d]} \cup NamesIn(told \cup found, to[d])

UdpInv == /\ UdpTypes /\ Progress /\ CacheTold /\ LookupUnknown /\ AskedByName
          /\ ShownNames /\ SentAsShown

Still(d) == NoReply(d) \/ DropWeb(d) \/ Finish(d) \/ Withhold(d)

\* A step keeps the types.
LEMMA UdpTypeStep ==
    ASSUME UdpTypes, Progress, [UdpNext]_udpVars
    PROVE  UdpTypes'
  <1> USE Apart DEF Sends, Destinations,
            Progress, UdpTypes, TypeCache, TypeStages, TypeTo, TypeDisplay, TypeSets, TypeKnew,
            UdpStages, Labels, Known
  <1>1. CASE UNCHANGED udpVars
    BY <1>1 DEF udpVars
  <1>2. ASSUME NEW d \in Datagrams, Still(d) PROVE UdpTypes'
    BY <1>2 DEF Still, NoReply, DropWeb, Finish, Withhold, Moves
  <1>3. ASSUME NEW d \in Datagrams, Reply(d) PROVE UdpTypes'
    BY <1>3 DEF Reply, Moves, Learns
  <1>4. ASSUME NEW d \in Datagrams, SendToHost(d) PROVE UdpTypes'
    BY <1>4 DEF SendToHost, Moves
  <1>5. ASSUME NEW d \in Datagrams, Query(d) PROVE UdpTypes'
    BY <1>5 DEF Query, Moves
  <1>6. ASSUME NEW d \in Datagrams, NEW a \in Addresses, AskByName(d, a) PROVE UdpTypes'
    BY <1>6 DEF AskByName, Gated, Moves
  <1>7. ASSUME NEW d \in Datagrams, NEW a \in Addresses, LookUp(d, a) PROVE UdpTypes'
    BY <1>7 DEF LookUp, Gated, Moves
  <1>8. ASSUME NEW d \in Datagrams, LookedUp(d) PROVE UdpTypes'
    BY <1>8 DEF LookedUp, Moves
  <1>9. ASSUME NEW d \in Datagrams, NoName(d) PROVE UdpTypes'
    BY <1>9 DEF NoName, Moves
  <1>10. ASSUME NEW d \in Datagrams, Allow(d) PROVE UdpTypes'
    BY <1>10 DEF Allow, Moves
  <1> QED BY <1>1, <1>2, <1>3, <1>4, <1>5, <1>6, <1>7, <1>8, <1>9, <1>10, Zenon
         DEF UdpNext, Still

\* It keeps handlers and datagrams in step.
LEMMA ProgressStep ==
    ASSUME UdpTypes, Progress, [UdpNext]_udpVars
    PROVE  Progress'
  <1> USE Apart DEF Sends, Destinations,
            Progress, UdpTypes, TypeCache, TypeStages, TypeTo, TypeDisplay, Labels
  <1>1. CASE UNCHANGED udpVars
    BY <1>1 DEF udpVars
  <1>2. ASSUME NEW d \in Datagrams, Still(d) PROVE Progress'
    BY <1>2 DEF Still, NoReply, DropWeb, Finish, Withhold, Moves
  <1>3. ASSUME NEW d \in Datagrams, Reply(d) PROVE Progress'
    BY <1>3 DEF Reply, Moves, Learns
  <1>4. ASSUME NEW d \in Datagrams, SendToHost(d) PROVE Progress'
    BY <1>4 DEF SendToHost, Moves
  <1>5. ASSUME NEW d \in Datagrams, Query(d) PROVE Progress'
    BY <1>5 DEF Query, Moves
  <1>6. ASSUME NEW d \in Datagrams, NEW a \in Addresses, AskByName(d, a) PROVE Progress'
    BY <1>6 DEF AskByName, Gated, Moves
  <1>7. ASSUME NEW d \in Datagrams, NEW a \in Addresses, LookUp(d, a) PROVE Progress'
    BY <1>7 DEF LookUp, Gated, Moves
  <1>8. ASSUME NEW d \in Datagrams, LookedUp(d) PROVE Progress'
    BY <1>8 DEF LookedUp, Moves
  <1>9. ASSUME NEW d \in Datagrams, NoName(d) PROVE Progress'
    BY <1>9 DEF NoName, Moves
  <1>10. ASSUME NEW d \in Datagrams, Allow(d) PROVE Progress'
    BY <1>10 DEF Allow, Moves
  <1> QED BY <1>1, <1>2, <1>3, <1>4, <1>5, <1>6, <1>7, <1>8, <1>9, <1>10, Zenon
         DEF UdpNext, Still

\* The cache and the replies injected change together.
LEMMA CacheStep ==
    ASSUME UdpTypes, CacheTold, [UdpNext]_udpVars
    PROVE  CacheTold'
  <1> USE Apart DEF Sends, Destinations,
            CacheTold, NamesIn, UdpTypes, TypeCache, TypeSets, Known
  <1>1. CASE UNCHANGED udpVars
    BY <1>1 DEF udpVars
  <1>2. ASSUME NEW d \in Datagrams, Still(d) PROVE CacheTold'
    BY <1>2 DEF Still, NoReply, DropWeb, Finish, Withhold, Moves
  <1>3. ASSUME NEW d \in Datagrams, Reply(d) PROVE CacheTold'
    <2>1. PICK n \in Names, A \in SUBSET Addresses :
            Learns(A, n) /\ told' = told \cup (A \X {n})
      BY <1>3 DEF Reply
    <2>2. ASSUME NEW a \in A PROVE cache'[a] = n /\ n # None /\ <<a, n>> \in told'
      BY <2>1, <2>2, Apart DEF Learns
    <2>3. ASSUME NEW a \in Addresses \ A
          PROVE  cache'[a] = cache[a] /\ \A m \in Names : <<a, m>> \in told' <=> <<a, m>> \in told
      BY <2>1, <2>3 DEF Learns
    <2> QED BY <2>2, <2>3
  <1>4. ASSUME NEW d \in Datagrams, SendToHost(d) PROVE CacheTold'
    BY <1>4 DEF SendToHost, Moves
  <1>5. ASSUME NEW d \in Datagrams, Query(d) PROVE CacheTold'
    BY <1>5 DEF Query, Moves
  <1>6. ASSUME NEW d \in Datagrams, NEW a \in Addresses, AskByName(d, a) PROVE CacheTold'
    BY <1>6 DEF AskByName, Gated, Moves
  <1>7. ASSUME NEW d \in Datagrams, NEW a \in Addresses, LookUp(d, a) PROVE CacheTold'
    BY <1>7 DEF LookUp, Gated, Moves
  <1>8. ASSUME NEW d \in Datagrams, LookedUp(d) PROVE CacheTold'
    BY <1>8 DEF LookedUp, Moves
  <1>9. ASSUME NEW d \in Datagrams, NoName(d) PROVE CacheTold'
    BY <1>9 DEF NoName, Moves
  <1>10. ASSUME NEW d \in Datagrams, Allow(d) PROVE CacheTold'
    BY <1>10 DEF Allow, Moves
  <1> QED BY <1>1, <1>2, <1>3, <1>4, <1>5, <1>6, <1>7, <1>8, <1>9, <1>10, Zenon
         DEF UdpNext, Still

\* A lookup begins only when no reply has named the address.
LEMMA LookupStep ==
    ASSUME UdpTypes, CacheTold, LookupUnknown, [UdpNext]_udpVars
    PROVE  LookupUnknown'
  <1> USE Apart DEF Sends, Destinations,
            CacheTold, LookupUnknown, NamesIn, UdpTypes, TypeStages, TypeTo, TypeKnew
  <1>1. CASE UNCHANGED udpVars
    BY <1>1 DEF udpVars
  <1>2. ASSUME NEW d \in Datagrams, Still(d) PROVE LookupUnknown'
    BY <1>2 DEF Still, NoReply, DropWeb, Finish, Withhold, Moves
  <1>3. ASSUME NEW d \in Datagrams, Reply(d) PROVE LookupUnknown'
    BY <1>3 DEF Reply, Moves, Learns
  <1>4. ASSUME NEW d \in Datagrams, SendToHost(d) PROVE LookupUnknown'
    BY <1>4 DEF SendToHost, Moves
  <1>5. ASSUME NEW d \in Datagrams, Query(d) PROVE LookupUnknown'
    BY <1>5 DEF Query, Moves
  <1>6. ASSUME NEW d \in Datagrams, NEW a \in Addresses, AskByName(d, a) PROVE LookupUnknown'
    BY <1>6 DEF AskByName, Gated, Moves
  <1>7. ASSUME NEW d \in Datagrams, NEW a \in Addresses, LookUp(d, a) PROVE LookupUnknown'
    BY <1>7 DEF LookUp, Gated, Moves
  <1>8. ASSUME NEW d \in Datagrams, LookedUp(d) PROVE LookupUnknown'
    BY <1>8 DEF LookedUp, Moves
  <1>9. ASSUME NEW d \in Datagrams, NoName(d) PROVE LookupUnknown'
    BY <1>9 DEF NoName, Moves
  <1>10. ASSUME NEW d \in Datagrams, Allow(d) PROVE LookupUnknown'
    BY <1>10 DEF Allow, Moves
  <1> QED BY <1>1, <1>2, <1>3, <1>4, <1>5, <1>6, <1>7, <1>8, <1>9, <1>10, Zenon
         DEF UdpNext, Still

\* What is shown comes from the cache if the program knew a name.
LEMMA AskedStep ==
    ASSUME UdpTypes, Progress, CacheTold, LookupUnknown, AskedByName, [UdpNext]_udpVars
    PROVE  AskedByName'
  <1> USE Apart DEF Sends, Destinations,
            Progress, CacheTold, LookupUnknown, AskedByName, NamesIn, UdpTypes, TypeCache,
            TypeStages, TypeTo, TypeDisplay, TypeSets, TypeKnew, Known
  <1>1. CASE UNCHANGED udpVars
    BY <1>1 DEF udpVars
  <1>2. ASSUME NEW d \in Datagrams, Still(d) PROVE AskedByName'
    BY <1>2 DEF Still, NoReply, DropWeb, Finish, Withhold, Moves
  <1>3. ASSUME NEW d \in Datagrams, Reply(d) PROVE AskedByName'
    BY <1>3 DEF Reply, Moves, Learns
  <1>4. ASSUME NEW d \in Datagrams, SendToHost(d) PROVE AskedByName'
    BY <1>4 DEF SendToHost, Moves
  <1>5. ASSUME NEW d \in Datagrams, Query(d) PROVE AskedByName'
    BY <1>5 DEF Query, Moves
  <1>6. ASSUME NEW d \in Datagrams, NEW a \in Addresses, AskByName(d, a) PROVE AskedByName'
    BY <1>6, ZenonT(60) DEF AskByName, Gated, Moves
  <1>7. ASSUME NEW d \in Datagrams, NEW a \in Addresses, LookUp(d, a) PROVE AskedByName'
    BY <1>7 DEF LookUp, Gated, Moves
  <1>8. ASSUME NEW d \in Datagrams, LookedUp(d) PROVE AskedByName'
    BY <1>8 DEF LookedUp, Moves
  <1>9. ASSUME NEW d \in Datagrams, NoName(d) PROVE AskedByName'
    BY <1>9 DEF NoName, Moves
  <1>10. ASSUME NEW d \in Datagrams, Allow(d) PROVE AskedByName'
    BY <1>10 DEF Allow, Moves
  <1> QED BY <1>1, <1>2, <1>3, <1>4, <1>5, <1>6, <1>7, <1>8, <1>9, <1>10, Zenon
         DEF UdpNext, Still

\* What is shown goes on naming the destination.
LEMMA ShownStep ==
    ASSUME UdpTypes, Progress, CacheTold, ShownNames, [UdpNext]_udpVars
    PROVE  ShownNames'
  <1> USE Apart DEF Sends, Destinations,
            Progress, CacheTold, ShownNames, NamesIn, UdpTypes, TypeCache, TypeStages, TypeTo,
            TypeDisplay, TypeSets, Known
  <1>1. CASE UNCHANGED udpVars
    BY <1>1 DEF udpVars
  <1>2. ASSUME NEW d \in Datagrams, Still(d) PROVE ShownNames'
    BY <1>2 DEF Still, NoReply, DropWeb, Finish, Withhold, Moves
  <1>3. ASSUME NEW d \in Datagrams, Reply(d) PROVE ShownNames'
    BY <1>3 DEF Reply, Moves, Learns
  <1>4. ASSUME NEW d \in Datagrams, SendToHost(d) PROVE ShownNames'
    BY <1>4 DEF SendToHost, Moves
  <1>5. ASSUME NEW d \in Datagrams, Query(d) PROVE ShownNames'
    BY <1>5 DEF Query, Moves
  <1>6. ASSUME NEW d \in Datagrams, NEW a \in Addresses, AskByName(d, a) PROVE ShownNames'
    BY <1>6 DEF AskByName, Gated, Moves
  <1>7. ASSUME NEW d \in Datagrams, NEW a \in Addresses, LookUp(d, a) PROVE ShownNames'
    BY <1>7 DEF LookUp, Gated, Moves
  <1>8. ASSUME NEW d \in Datagrams, LookedUp(d) PROVE ShownNames'
    BY <1>8 DEF LookedUp, Moves
  <1>9. ASSUME NEW d \in Datagrams, NoName(d) PROVE ShownNames'
    BY <1>9 DEF NoName, Moves
  <1>10. ASSUME NEW d \in Datagrams, Allow(d) PROVE ShownNames'
    BY <1>10 DEF Allow, Moves
  <1> QED BY <1>1, <1>2, <1>3, <1>4, <1>5, <1>6, <1>7, <1>8, <1>9, <1>10, Zenon
         DEF UdpNext, Still

\* What was sent goes on having been allowed.
LEMMA SentStep ==
    ASSUME UdpTypes, Progress, ShownNames, SentAsShown, [UdpNext]_udpVars
    PROVE  SentAsShown'
  <1> USE Apart DEF Sends, Destinations,
            Progress, ShownNames, SentAsShown, NamesIn, UdpTypes, TypeStages, TypeTo, TypeDisplay,
            TypeSets, Known
  <1>1. CASE UNCHANGED udpVars
    BY <1>1 DEF udpVars
  <1>2. ASSUME NEW d \in Datagrams, Still(d) PROVE SentAsShown'
    BY <1>2 DEF Still, NoReply, DropWeb, Finish, Withhold, Moves
  <1>3. ASSUME NEW d \in Datagrams, Reply(d) PROVE SentAsShown'
    BY <1>3 DEF Reply, Moves, Learns
  <1>4. ASSUME NEW d \in Datagrams, SendToHost(d) PROVE SentAsShown'
    BY <1>4 DEF SendToHost, Moves
  <1>5. ASSUME NEW d \in Datagrams, Query(d) PROVE SentAsShown'
    BY <1>5 DEF Query, Moves
  <1>6. ASSUME NEW d \in Datagrams, NEW a \in Addresses, AskByName(d, a) PROVE SentAsShown'
    BY <1>6 DEF AskByName, Gated, Moves
  <1>7. ASSUME NEW d \in Datagrams, NEW a \in Addresses, LookUp(d, a) PROVE SentAsShown'
    BY <1>7 DEF LookUp, Gated, Moves
  <1>8. ASSUME NEW d \in Datagrams, LookedUp(d) PROVE SentAsShown'
    BY <1>8 DEF LookedUp, Moves
  <1>9. ASSUME NEW d \in Datagrams, NoName(d) PROVE SentAsShown'
    BY <1>9 DEF NoName, Moves
  <1>10. ASSUME NEW d \in Datagrams, Allow(d) PROVE SentAsShown'
    BY <1>10 DEF Allow, Moves
  <1> QED BY <1>1, <1>2, <1>3, <1>4, <1>5, <1>6, <1>7, <1>8, <1>9, <1>10, Zenon
         DEF UdpNext, Still

LEMMA UdpInitInv == UdpInit => UdpInv
  BY DEF UdpInit, UdpInv, Progress, CacheTold, LookupUnknown, AskedByName, ShownNames,
         SentAsShown, NamesIn, UdpTypes, TypeCache, TypeStages, TypeTo, TypeDisplay, TypeSets,
         TypeKnew, UdpStages, Labels, Known, Destinations

LEMMA UdpInvariant == UdpSpec => []UdpInv
  <1>1. UdpInv /\ [UdpNext]_udpVars => UdpInv'
    BY UdpTypeStep, ProgressStep, CacheStep, LookupStep, AskedStep, ShownStep, SentStep, Zenon
       DEF UdpInv
  <1> QED BY <1>1, UdpInitInv, PTL DEF UdpSpec

\* The variables of the module keep their types.
THEOREM UdpTypeCorrect == UdpSpec => []UdpTypeOK
  <1>1. UdpInv => UdpTypeOK
    BY DEF UdpInv, UdpTypes, TypeCache, TypeStages, TypeTo, TypeDisplay, TypeSets, TypeKnew,
           UdpTypeOK, UdpStages
  <1> QED BY <1>1, UdpInvariant, PTL

\* Once a program has an address from a DNS reply, the user is asked about it by a name
\* that DNS gave it.
THEOREM AlwaysAskedByName == UdpSpec => []AskedByName
  <1>1. UdpInv => AskedByName
    BY DEF UdpInv
  <1> QED BY <1>1, UdpInvariant, PTL

\* A datagram goes only where it is addressed, and anywhere but to the resolver and the host
\* itself only as the user let it.
THEOREM AlwaysSentAsShown == UdpSpec => []SentAsShown
  <1>1. UdpInv => SentAsShown
    BY DEF UdpInv
  <1> QED BY <1>1, UdpInvariant, PTL

-----------------------------------------------------------------------------
(* DnsReply: climbing the numbers.                                         *)

LEMMA LeastOf ==
    ASSUME NEW R, IsWellFoundedOn(R, Nat), NEW X, X \subseteq Nat, X # {}
    PROVE  \E m \in X : \A n \in X : <<n, m>> \notin R
  BY WFMin, Zenon

LEMMA NotLess ==
    ASSUME NEW R, \A a, b \in Nat : <<a, b>> \in R <=> a < b,
           NEW X, X \subseteq Nat, NEW m \in X, \A n \in X : <<n, m>> \notin R
    PROVE  \A n \in X : ~(n < m)
  BY Zenon

LEMMA LeastNat ==
    ASSUME NEW X, X \subseteq Nat, X # {}
    PROVE  \E m \in X : \A n \in X : ~(n < m)
  <1>1. IsWellFoundedOn({ss \in Nat \X Nat : ss[1] < ss[2]}, Nat)
    BY Zenon, NatLessThanWellFounded DEF OpToRel
  <1>2. \A a, b \in Nat : <<a, b>> \in {ss \in Nat \X Nat : ss[1] < ss[2]} <=> a < b
    OBVIOUS
  <1>3. PICK m \in X : \A n \in X : <<n, m>> \notin {ss \in Nat \X Nat : ss[1] < ss[2]}
    BY <1>1, LeastOf, Zenon
  <1> QED BY <1>2, <1>3, NotLess, Zenon

\* A set of numbers that has 0, and with each number below n the next, has n.
LEMMA Climb ==
    ASSUME NEW n \in Nat, NEW S, 0 \in S, \A i \in 0..(n - 1) : i \in S => i + 1 \in S
    PROVE  n \in S
  <1> DEFINE X == {i \in 0..n : i \notin S}
  <1>1. SUFFICES ASSUME X # {} PROVE FALSE
    OBVIOUS
  <1>2. X \subseteq Nat
    OBVIOUS
  <1> HIDE DEF X
  <1>3. PICK m \in X : \A i \in X : ~(i < m)
    BY <1>1, <1>2, LeastNat
  <1>4. m \in 0..n /\ m \notin S /\ m # 0
    BY <1>3 DEF X
  <1>5. m - 1 \in 0..(n - 1) /\ m - 1 \notin X
    BY <1>3, <1>4
  <1>6. m - 1 \in S
    BY <1>4, <1>5 DEF X
  <1> QED BY <1>4, <1>5, <1>6

-----------------------------------------------------------------------------
(* DnsReply: functions defined by recursion exist.                         *)

\* Functions that make a value of V from a number and a value, and the sequence of values
\* in which each is made of the one before.
Makers(V) == [Nat \X V -> V]
IsRun(f, n, V, a, g) == /\ f \in [0..n -> V] /\ f[0] = a
                        /\ \A i \in 1..n : f[i] = g[<<i, f[i - 1]>>]

LEMMA Recursion ==
    ASSUME NEW n \in Nat, NEW V, NEW a \in V, NEW g \in Makers(V)
    PROVE  \E f : IsRun(f, n, V, a, g)
  <1> DEFINE S == {m \in Nat : \E f : IsRun(f, m, V, a, g)}
  <1>1. 0 \in S
    <2>1. PICK f : f = [i \in 0..0 |-> a]
      OBVIOUS
    <2>2. f \in [0..0 -> V] /\ f[0] = a /\ \A i \in 1..0 : f[i] = g[<<i, f[i - 1]>>]
      BY <2>1
    <2> QED BY <2>2 DEF IsRun
  <1>2. ASSUME NEW m \in 0..(n - 1), m \in S PROVE m + 1 \in S
    <2>1. PICK f : f \in [0..m -> V] /\ f[0] = a /\ \A i \in 1..m : f[i] = g[<<i, f[i - 1]>>]
      BY <1>2 DEF IsRun
    <2>2. PICK h : h = [i \in 0..(m + 1) |-> IF i = m + 1 THEN g[<<i, f[m]>>] ELSE f[i]]
      OBVIOUS
    <2>3. m \in 0..m /\ m + 1 \in 0..(m + 1) /\ m + 1 \in Nat
      OBVIOUS
    <2>4. g[<<m + 1, f[m]>>] \in V
      BY <2>1, <2>3 DEF Makers
    <2>5. h \in [0..(m + 1) -> V]
      BY <2>1, <2>2, <2>4
    <2>6. h[m + 1] = g[<<m + 1, f[m]>>] /\ \A i \in 0..m : h[i] = f[i]
      BY <2>2
    <2>7. \A i \in 1..(m + 1) : h[i] = g[<<i, h[i - 1]>>]
      <3> SUFFICES ASSUME NEW i \in 1..(m + 1) PROVE h[i] = g[<<i, h[i - 1]>>]
        OBVIOUS
      <3>1. CASE i = m + 1
        BY <2>3, <2>6, <3>1
      <3>2. CASE i \in 1..m
        <4>1. i \in 0..m /\ i - 1 \in 0..m
          BY <3>2
        <4> QED BY <2>1, <2>6, <3>2, <4>1
      <3> QED BY <3>1, <3>2
    <2>8. h[0] = a
      BY <2>1, <2>6
    <2> QED BY <2>3, <2>5, <2>7, <2>8 DEF IsRun
  <1> HIDE DEF S
  <1>3. n \in S
    BY <1>1, <1>2, Climb
  <1> QED BY <1>3 DEF S

-----------------------------------------------------------------------------
(* Names: what TLC's messages have in common.                              *)

Offsets == Nat \ {0}
Calls == (0..MaxDepth) \X Offsets

\* A place where a name goes on, or which is past the end.
OnWay(p) == p \in Offsets /\ (Within(p) => IsName(msg[p]))

\* A message in which every label and every pointer is followed by more of a name.
Legible ==
    /\ Len(msg) \in Nat
    /\ \A i \in 1..Len(msg) : msg[i].is = "label" => msg[i].label \in Label /\ OnWay(i + 1)
    /\ \A i \in 1..Len(msg) : msg[i].is = "pointer" => OnWay(msg[i].target)

LEMMA AfterLabel ==
    ASSUME NEW p, IsLabel(p)
    PROVE  After(p) = p + 1
  BY Zenon DEF After, IsLabel

LEMMA AfterOnWay ==
    ASSUME Legible, NEW p \in Nat
    PROVE  /\ After(p) \in Nat
           /\ After(p) # 0 => OnWay(After(p)) /\ Within(p) /\ msg[p].is # "end"
           /\ OnWay(p) /\ Within(p) /\ msg[p].is # "end" => After(p) # 0
  <1>1. CASE IsLabel(p)
    <2>1. After(p) = p + 1 /\ Within(p) /\ msg[p].is = "label"
      BY <1>1 DEF After, IsLabel
    <2> QED BY <2>1 DEF Legible, Within
  <1>2. CASE Within(p) /\ msg[p].is = "pointer"
    <2>1. After(p) = msg[p].target
      BY <1>2 DEF After, IsLabel
    <2> QED BY <1>2, <2>1 DEF Legible, Within, OnWay, Offsets
  <1>3. CASE ~IsLabel(p) /\ ~(Within(p) /\ msg[p].is = "pointer")
    <2>1. After(p) = 0
      BY <1>3 DEF After
    <2> QED BY <1>3, <2>1 DEF OnWay, IsName, IsLabel
  <1> QED BY <1>1, <1>2, <1>3

IsWalk(W, start) ==
    /\ W \in [0..(Len(msg) + 1) -> Nat] /\ W[0] = start
    /\ \A i \in 1..(Len(msg) + 1) : W[i] = After(W[i - 1])

LEMMA WalkUnfolds ==
    ASSUME Legible, NEW start \in Nat
    PROVE  IsWalk(Walk(start), start)
  <1>1. PICK n \in Nat : n = Len(msg) + 1
    BY DEF Legible
  <1> DEFINE Eq(W) == W = [i \in 0..n |-> IF i = 0 THEN start ELSE After(W[i - 1])]
  <1>2. PICK g : g = [x \in Nat \X Nat |-> After(x[2])]
    OBVIOUS
  <1>3. g \in Makers(Nat)
    BY <1>2, AfterOnWay DEF Makers
  <1>4. PICK f \in [0..n -> Nat] : f[0] = start /\ \A i \in 1..n : f[i] = g[<<i, f[i - 1]>>]
    <2>1. \E f : IsRun(f, n, Nat, start, g)
      BY <1>3, Recursion, Zenon
    <2> QED BY <2>1 DEF IsRun
  <1>5. \A i \in 1..n : f[i] = After(f[i - 1])
    <2> SUFFICES ASSUME NEW i \in 1..n PROVE f[i] = After(f[i - 1])
      OBVIOUS
    <2>1. i \in Nat /\ i - 1 \in 0..n
      BY <1>1
    <2>2. f[i - 1] \in Nat
      BY <2>1
    <2> QED BY <1>2, <1>4, <2>1, <2>2
  <1>6. Eq(f)
    <2>1. \A i \in 0..n : f[i] = IF i = 0 THEN start ELSE After(f[i - 1])
      BY <1>1, <1>4, <1>5
    <2> QED BY <2>1
  <1>7. PICK W : W = Walk(start)
    OBVIOUS
  <1>8. Eq(W)
    <2>1. W = CHOOSE w : Eq(w)
      BY <1>1, <1>7 DEF Walk
    <2> QED BY <1>6, <2>1
  <1>9. W[0] = start /\ \A i \in 1..n : W[i] = After(W[i - 1])
    BY <1>1, <1>8
  <1>10. \A i \in 0..n : W[i] \in Nat
    <2>1. SUFFICES ASSUME NEW i \in 0..n PROVE W[i] \in Nat
      OBVIOUS
    <2> DEFINE S == {j \in Nat : j <= n => W[j] \in Nat}
    <2>2. 0 \in S
      BY <1>9
    <2>3. ASSUME NEW j \in 0..(i - 1), j \in S PROVE j + 1 \in S
      <3>1. j + 1 \in 1..n /\ (j + 1) - 1 = j /\ W[j] \in Nat
        BY <1>1, <2>1, <2>3
      <3>2. W[j + 1] = After(W[j])
        BY <1>9, <3>1
      <3>3. W[j + 1] \in Nat
        BY <3>1, <3>2, AfterOnWay
      <3> QED BY <3>3
    <2> HIDE DEF S
    <2>4. i \in S
      BY <2>1, <2>2, <2>3, Climb, <1>1
    <2> QED BY <2>4, <1>1 DEF S
  <1>11. W \in [0..n -> Nat]
    BY <1>8, <1>10
  <1> QED BY <1>1, <1>7, <1>9, <1>11 DEF IsWalk

\* A function that takes one turn everywhere.
IsParse(P) == \A d \in 0..MaxDepth, o \in Offsets : P[<<d, o>>] = Turn(P, d, o)

\* Two functions take the same turn if they agree where it looks.
LEMMA SameTurn ==
    ASSUME Legible, NEW P, NEW Q, NEW d \in 0..MaxDepth, NEW o \in Offsets,
           \/ o > Len(msg)
           \/ /\ Q[<<d, o + 1>>] = P[<<d, o + 1>>]
              /\ d > 0 => \A t \in Offsets : Q[<<d - 1, t>>] = P[<<d - 1, t>>]
    PROVE  Turn(Q, d, o) = Turn(P, d, o)
  <1>1. CASE o > Len(msg)
    BY <1>1 DEF Turn
  <1>2. CASE ~(o > Len(msg))
    <2>1. o \in 1..Len(msg)
      BY <1>2 DEF Legible, Offsets
    <2>2. msg[o].is = "pointer" => msg[o].target \in Offsets
      BY <2>1 DEF Legible, OnWay
    <2>3. CASE msg[o].is = "pointer" /\ d # 0
      <3>1. Q[<<d - 1, msg[o].target>>] = P[<<d - 1, msg[o].target>>]
        BY <1>2, <2>2, <2>3
      <3> QED BY <1>2, <2>3, <3>1 DEF Turn
    <2>4. CASE ~(msg[o].is = "pointer" /\ d # 0)
      BY <1>2, <2>4 DEF Turn
    <2> QED BY <2>3, <2>4
  <1> QED BY <1>1, <1>2

\* The turns are taken at all calls below d, and with d calls left at the last k offsets.
Taken(P, d, k) ==
    /\ P = [c \in Calls |-> P[c]]
    /\ \A e \in 0..MaxDepth, o \in Offsets :
           o > Len(msg) \/ e < d \/ (e = d /\ o > Len(msg) - k)
           => P[<<e, o>>] = Turn(P, e, o)

LEMMA OneMoreOffset ==
    ASSUME Legible, NEW d \in 0..MaxDepth, NEW k \in 0..(Len(msg) - 1), NEW P, Taken(P, d, k)
    PROVE  \E Q : Taken(Q, d, k + 1)
  <1>1. PICK l \in Nat : l = Len(msg)
    BY DEF Legible
  <1>2. PICK p \in Offsets : p = l - k
    <2>1. l - k \in Offsets
      BY <1>1 DEF Offsets
    <2> QED BY <2>1
  <1>3. PICK v : v = Turn(P, d, p)
    OBVIOUS
  <1>4. PICK Q : Q = [c \in Calls |-> IF c = <<d, p>> THEN v ELSE P[c]]
    OBVIOUS
  <1>5. \A e \in 0..MaxDepth, o \in Offsets : <<e, o>> \in Calls
    BY DEF Calls
  <1>6. /\ Q[<<d, p>>] = v
        /\ \A e \in 0..MaxDepth, o \in Offsets : e # d \/ o # p => Q[<<e, o>>] = P[<<e, o>>]
    BY <1>4, <1>5
  <1>7. ASSUME NEW e \in 0..MaxDepth, NEW o \in Offsets,
               o > l \/ e < d \/ (e = d /\ o > l - (k + 1))
        PROVE  Q[<<e, o>>] = Turn(Q, e, o)
    <2>1. Turn(Q, e, o) = Turn(P, e, o)
      <3>1. CASE o > l
        BY <1>1, <3>1, SameTurn
      <3>2. CASE ~(o > l)
        <4>1. o + 1 \in Offsets /\ (e # d \/ o + 1 # p)
          BY <1>1, <1>2, <1>7, <3>2 DEF Offsets
        <4>2. Q[<<e, o + 1>>] = P[<<e, o + 1>>]
          BY <1>6, <4>1
        <4>3. e > 0 => e - 1 \in 0..MaxDepth /\ e - 1 # d
          BY <1>1, <1>7, <3>2, DepthIsEnough
        <4>4. e > 0 => \A t \in Offsets : Q[<<e - 1, t>>] = P[<<e - 1, t>>]
          BY <1>6, <4>3
        <4> QED BY <4>2, <4>4, SameTurn
      <3> QED BY <3>1, <3>2
    <2>2. CASE e = d /\ o = p
      BY <1>3, <1>6, <2>1, <2>2
    <2>3. CASE e # d \/ o # p
      <3>1. o > l \/ e < d \/ (e = d /\ o > l - k)
        BY <1>1, <1>2, <1>7, <2>3 DEF Offsets
      <3>2. P[<<e, o>>] = Turn(P, e, o)
        BY <1>1, <3>1 DEF Taken
      <3> QED BY <1>6, <2>1, <2>3, <3>2
    <2> QED BY <2>2, <2>3
  <1>8. Q = [c \in Calls |-> Q[c]]
    BY <1>4
  <1> QED BY <1>1, <1>7, <1>8 DEF Taken

LEMMA ParseExists ==
    ASSUME Legible
    PROVE  \E P : P = [c \in Calls |-> P[c]] /\ IsParse(P)
  <1>1. PICK l \in Nat : l = Len(msg)
    BY DEF Legible
  <1>2. MaxDepth \in Nat
    BY DepthIsEnough
  <1> DEFINE S == {d \in Nat : \E P : Taken(P, d, 0)}
  <1>3. 0 \in S
    <2>1. PICK P : P = [c \in Calls |-> Result(<<>>, c[2], TRUE)]
      OBVIOUS
    <2>2. P = [c \in Calls |-> P[c]]
      BY <2>1
    <2>3. ASSUME NEW e \in 0..MaxDepth, NEW o \in Offsets, o > l
          PROVE  P[<<e, o>>] = Turn(P, e, o)
      <3>1. Turn(P, e, o) = Result(<<>>, o, TRUE)
        BY <1>1, <2>3 DEF Turn
      <3>2. <<e, o>> \in Calls
        BY DEF Calls
      <3> QED BY <2>1, <3>1, <3>2
    <2>4. ASSUME NEW e \in 0..MaxDepth, NEW o \in Offsets,
                 o > Len(msg) \/ e < 0 \/ (e = 0 /\ o > Len(msg) - 0)
          PROVE  P[<<e, o>>] = Turn(P, e, o)
      <3>1. o > l
        BY <1>1, <2>4
      <3> QED BY <2>3, <3>1
    <2>5. Taken(P, 0, 0)
      BY <2>2, <2>4 DEF Taken
    <2> QED BY <2>5
  <1>4. ASSUME NEW d \in 0..MaxDepth, d \in S PROVE d + 1 \in S
    <2> DEFINE T == {k \in Nat : \E P : Taken(P, d, k)}
    <2>1. 0 \in T
      BY <1>4
    <2>2. ASSUME NEW k \in 0..(l - 1), k \in T PROVE k + 1 \in T
      <3>1. PICK P : Taken(P, d, k)
        BY <2>2
      <3>2. \E Q : Taken(Q, d, k + 1)
        BY <1>1, <3>1, OneMoreOffset
      <3> QED BY <3>2
    <2> HIDE DEF T
    <2>3. l \in T
      BY <2>1, <2>2, Climb
    <2>4. PICK P : Taken(P, d, l)
      BY <2>3 DEF T
    <2>5. ASSUME NEW e \in 0..MaxDepth, NEW o \in Offsets,
                 o > Len(msg) \/ e < d + 1 \/ (e = d + 1 /\ o > Len(msg) - 0)
          PROVE  P[<<e, o>>] = Turn(P, e, o)
      <3>1. o > Len(msg) \/ e < d \/ (e = d /\ o > Len(msg) - l)
        BY <1>1, <2>5 DEF Offsets
      <3> QED BY <2>4, <3>1 DEF Taken
    <2>6. Taken(P, d + 1, 0)
      BY <2>4, <2>5 DEF Taken
    <2> QED BY <2>6
  <1> HIDE DEF S
  <1>5. MaxDepth + 1 \in S
    <2>1. \A d \in 0..((MaxDepth + 1) - 1) : d \in S => d + 1 \in S
      BY <1>2, <1>4
    <2> QED BY <1>2, <1>3, <2>1, Climb
  <1>6. PICK P : Taken(P, MaxDepth + 1, 0)
    BY <1>5 DEF S
  <1>7. IsParse(P)
    <2>1. \A e \in 0..MaxDepth : e < MaxDepth + 1
      BY <1>2
    <2> QED BY <1>6, <2>1 DEF Taken, IsParse
  <1> QED BY <1>6, <1>7 DEF Taken

LEMMA ParseUnfolds ==
    ASSUME Legible
    PROVE  \E P : IsParse(P) /\ \A start : ParseName(start) = P[<<MaxDepth, start>>]
  <1> DEFINE Eq(P) == P = [c \in (0..MaxDepth) \X (Nat \ {0}) |-> Turn(P, c[1], c[2])]
  <1>1. PICK f : f = [c \in Calls |-> f[c]] /\ IsParse(f)
    BY ParseExists
  <1>2. \A c \in Calls : f[c] = Turn(f, c[1], c[2])
    <2> SUFFICES ASSUME NEW c \in Calls PROVE f[c] = Turn(f, c[1], c[2])
      OBVIOUS
    <2>1. PICK d \in 0..MaxDepth, o \in Offsets : c = <<d, o>>
      BY DEF Calls
    <2> QED BY <1>1, <2>1 DEF IsParse
  <1>3. Eq(f)
    <2>1. f = [c \in Calls |-> Turn(f, c[1], c[2])]
      BY <1>1, <1>2
    <2> QED BY <2>1 DEF Calls, Offsets
  <1>4. PICK P : P = CHOOSE p : Eq(p)
    OBVIOUS
  <1>5. Eq(P)
    BY <1>3, <1>4
  <1>6. \A start : ParseName(start) = P[<<MaxDepth, start>>]
    BY <1>4 DEF ParseName
  <1>7. IsParse(P)
    <2> SUFFICES ASSUME NEW d \in 0..MaxDepth, NEW o \in Offsets
                 PROVE  P[<<d, o>>] = Turn(P, d, o)
      BY DEF IsParse
    <2>1. <<d, o>> \in (0..MaxDepth) \X (Nat \ {0})
      BY DEF Offsets
    <2>2. P[<<d, o>>] = Turn(P, <<d, o>>[1], <<d, o>>[2])
      BY <1>5, <2>1
    <2> QED BY <2>2
  <1> QED BY <1>6, <1>7

\* What the calls return, by the token they meet.
LEMMA TurnPast ==
    ASSUME NEW P, IsParse(P), NEW d \in 0..MaxDepth, NEW o \in Offsets, o > Len(msg)
    PROVE  P[<<d, o>>].name = <<>> /\ P[<<d, o>>].off = o /\ P[<<d, o>>].ok
  <1>1. P[<<d, o>>] = Result(<<>>, o, TRUE)
    BY DEF IsParse, Turn
  <1> QED BY <1>1 DEF Result

LEMMA TurnEnd ==
    ASSUME NEW P, IsParse(P), NEW d \in 0..MaxDepth, NEW o \in Offsets,
           Within(o), msg[o].is = "end"
    PROVE  P[<<d, o>>].name = <<>> /\ P[<<d, o>>].off = o + 1 /\ P[<<d, o>>].ok
  <1>1. P[<<d, o>>] = Turn(P, d, o) /\ ~(o > Len(msg))
    BY DEF IsParse, Within
  <1>2. P[<<d, o>>] = Result(<<>>, o + 1, TRUE)
    BY <1>1 DEF Turn
  <1> QED BY <1>2 DEF Result

LEMMA TurnLabel ==
    ASSUME NEW P, IsParse(P), NEW d \in 0..MaxDepth, NEW o \in Offsets, IsLabel(o)
    PROVE  /\ P[<<d, o>>].name = <<msg[o].label>> \o P[<<d, o + 1>>].name
           /\ P[<<d, o>>].off = P[<<d, o + 1>>].off /\ P[<<d, o>>].ok = P[<<d, o + 1>>].ok
  <1>1. P[<<d, o>>] = Turn(P, d, o) /\ ~(o > Len(msg)) /\ msg[o].is = "label"
    BY DEF IsParse, IsLabel, Within
  <1>2. P[<<d, o>>] = Result(<<msg[o].label>> \o P[<<d, o + 1>>].name,
                             P[<<d, o + 1>>].off, P[<<d, o + 1>>].ok)
    BY <1>1 DEF Turn
  <1> QED BY <1>2 DEF Result

LEMMA TurnPointer ==
    ASSUME NEW P, IsParse(P), NEW d \in 0..MaxDepth, NEW o \in Offsets,
           Within(o), msg[o].is = "pointer"
    PROVE  /\ d = 0 => P[<<d, o>>].ok = FALSE
           /\ d # 0 => /\ P[<<d, o>>].name = P[<<d - 1, msg[o].target>>].name
                       /\ P[<<d, o>>].off = o + 1
                       /\ P[<<d, o>>].ok = P[<<d - 1, msg[o].target>>].ok
  <1>1. P[<<d, o>>] = Turn(P, d, o) /\ ~(o > Len(msg))
    BY DEF IsParse, Within
  <1>2. CASE d = 0
    <2>1. P[<<d, o>>] = Result(<<>>, o, FALSE)
      BY <1>1, <1>2 DEF Turn
    <2> QED BY <1>2, <2>1 DEF Result
  <1>3. CASE d # 0
    <2>1. P[<<d, o>>] = Result(P[<<d - 1, msg[o].target>>].name, o + 1,
                               P[<<d - 1, msg[o].target>>].ok)
      BY <1>1, <1>3 DEF Turn
    <2> QED BY <1>3, <2>1 DEF Result
  <1> QED BY <1>2, <1>3

-----------------------------------------------------------------------------
(* Names: where they end.                                                  *)

LEMMA EndsHere ==
    ASSUME Legible, NEW p \in 1..(Len(msg) + 1), ~IsLabel(p)
    PROVE  NameEnds(p) = IF Within(p) THEN p + 1 ELSE p
  <1>1. PICK past : past = {i \in p..(Len(msg) + 1) : ~IsLabel(i)}
    OBVIOUS
  <1>2. Len(msg) \in Nat
    BY DEF Legible
  <1>3. p \in past /\ \A j \in past : p <= j
    BY <1>1, <1>2
  <1>4. \A i \in past : (\A j \in past : i <= j) => i = p
    BY <1>1, <1>2, <1>3
  <1>5. PICK end : end = CHOOSE i \in past : \A j \in past : i <= j
    OBVIOUS
  <1>6. end = p
    BY <1>3, <1>4, <1>5
  <1> QED BY <1>1, <1>5, <1>6 DEF NameEnds

LEMMA EndsLater ==
    ASSUME Legible, NEW p \in 1..Len(msg), IsLabel(p)
    PROVE  NameEnds(p) = NameEnds(p + 1)
  <1>1. Len(msg) \in Nat
    BY DEF Legible
  <1>2. {i \in p..(Len(msg) + 1) : ~IsLabel(i)} = {i \in (p + 1)..(Len(msg) + 1) : ~IsLabel(i)}
    BY <1>1
  <1>3. PICK past : past = {i \in p..(Len(msg) + 1) : ~IsLabel(i)}
    OBVIOUS
  <1>4. PICK end : end = CHOOSE i \in past : \A j \in past : i <= j
    OBVIOUS
  <1>5. NameEnds(p) = IF Within(end) THEN end + 1 ELSE end
    BY <1>3, <1>4 DEF NameEnds
  <1>6. past = {i \in (p + 1)..(Len(msg) + 1) : ~IsLabel(i)}
    BY <1>2, <1>3
  <1>7. NameEnds(p + 1) = IF Within(end) THEN end + 1 ELSE end
    BY <1>4, <1>6 DEF NameEnds
  <1> QED BY <1>5, <1>7

\* Whatever becomes of the pointers, reading goes on after the name.
LEMMA ReadsToEnd ==
    ASSUME Legible, NEW P, IsParse(P), NEW d \in 1..MaxDepth,
           NEW p \in 1..(Len(msg) + 1), OnWay(p)
    PROVE  P[<<d, p>>].off = NameEnds(p)
  <1>1. PICK l \in Nat : l = Len(msg)
    BY DEF Legible
  <1> DEFINE S == {k \in Nat : \A q \in 1..(l + 1) :
                       OnWay(q) /\ q > l - k => P[<<d, q>>].off = NameEnds(q)}
  <1>2. \A q \in 1..(l + 1) : q \in Offsets
    BY DEF Offsets
  <1>3. d \in 0..MaxDepth /\ d # 0
    BY DepthIsEnough
  <1>4. 0 \in S
    <2> SUFFICES ASSUME NEW q \in 1..(l + 1), OnWay(q), q > l
                 PROVE  P[<<d, q>>].off = NameEnds(q)
      OBVIOUS
    <2>1. ~Within(q) /\ ~IsLabel(q)
      BY <1>1 DEF Within, IsLabel
    <2>2. NameEnds(q) = q
      BY <1>1, <2>1, EndsHere
    <2>3. q \in Offsets /\ q > Len(msg)
      BY <1>1, <1>2
    <2>4. P[<<d, q>>].off = q
      BY <1>3, <2>3, TurnPast, Zenon
    <2> QED BY <2>2, <2>4
  <1>5. ASSUME NEW k \in 0..(l - 1), k \in S PROVE k + 1 \in S
    <2> SUFFICES ASSUME NEW q \in 1..(l + 1), OnWay(q), q > l - (k + 1)
                 PROVE  P[<<d, q>>].off = NameEnds(q)
      OBVIOUS
    <2>1. CASE q > l - k
      BY <1>5, <2>1
    <2>2. CASE q = l - k
      <3>1. q \in 1..l /\ Within(q) /\ IsName(msg[q]) /\ q + 1 \in 1..(l + 1) /\ q + 1 > l - k
        BY <1>1, <2>2 DEF OnWay, Within
      <3>2. CASE IsLabel(q)
        <4>1. OnWay(q + 1)
          BY <1>1, <3>1, <3>2 DEF Legible, IsLabel
        <4>2. P[<<d, q + 1>>].off = NameEnds(q + 1)
          BY <1>5, <3>1, <4>1
        <4>3. P[<<d, q>>].off = P[<<d, q + 1>>].off
          BY <1>2, <1>3, <3>2, TurnLabel
        <4> QED BY <1>1, <3>1, <3>2, <4>2, <4>3, EndsLater
      <3>3. CASE ~IsLabel(q)
        <4>1. NameEnds(q) = q + 1
          BY <1>1, <3>1, <3>3, EndsHere
        <4>2. msg[q].is = "end" \/ msg[q].is = "pointer"
          BY <3>1, <3>3 DEF IsName, IsLabel
        <4>3. P[<<d, q>>].off = q + 1
          <5>1. q \in Offsets /\ Within(q)
            BY <1>2, <3>1
          <5>2. CASE msg[q].is = "end"
            BY <1>3, <5>1, <5>2, TurnEnd
          <5>3. CASE msg[q].is = "pointer"
            BY <1>3, <5>1, <5>3, TurnPointer
          <5> QED BY <4>2, <5>2, <5>3
        <4> QED BY <4>1, <4>3
      <3> QED BY <3>2, <3>3
    <2> QED BY <2>1, <2>2
  <1> HIDE DEF S
  <1>6. l \in S
    BY <1>4, <1>5, Climb
  <1> QED BY <1>1, <1>6 DEF S

-----------------------------------------------------------------------------
(* Names: what they say, if the way through them ends.                     *)

LEMMA WalkStays ==
    ASSUME Legible, NEW start, OnWay(start), NEW W, IsWalk(W, start)
    PROVE  \A i \in 0..(Len(msg) + 1) : W[i] = 0 \/ OnWay(W[i])
  <1>1. PICK l \in Nat : l = Len(msg)
    BY DEF Legible
  <1>2. ASSUME NEW i \in 0..(l + 1) PROVE W[i] = 0 \/ OnWay(W[i])
    <2>1. CASE i = 0
      BY <2>1 DEF IsWalk
    <2>2. CASE i # 0
      <3>1. i \in 1..(l + 1) /\ i - 1 \in 0..(l + 1)
        BY <1>1, <2>2
      <3>2. W[i] = After(W[i - 1]) /\ W[i - 1] \in Nat
        BY <1>1, <3>1 DEF IsWalk
      <3> QED BY <3>2, AfterOnWay
    <2> QED BY <2>1, <2>2
  <1> QED BY <1>1, <1>2

IsMet(M, W) ==
    /\ M \in [0..(Len(msg) + 1) -> Seq(Label)] /\ M[0] = <<>>
    /\ \A i \in 1..(Len(msg) + 1) :
           /\ IsLabel(W[i - 1]) => M[i] = Append(M[i - 1], msg[W[i - 1]].label)
           /\ ~IsLabel(W[i - 1]) => M[i] = M[i - 1]

LEMMA LabelsAreLabels ==
    ASSUME Legible, NEW p, IsLabel(p)
    PROVE  msg[p].label \in Label /\ OnWay(p + 1)
  BY DEF Legible, IsLabel, Within

LEMMA NameUnfolds ==
    ASSUME Legible, NEW start \in Nat
    PROVE  \E M : IsMet(M, Walk(start)) /\ NameAt(start) = M[Len(msg) + 1]
  <1>1. PICK n \in Nat : n = Len(msg) + 1
    BY DEF Legible
  <1>2. PICK W : W = Walk(start)
    OBVIOUS
  <1> DEFINE More(i, s) == IF IsLabel(W[i - 1]) THEN Append(s, msg[W[i - 1]].label) ELSE s
             Eq(M) == M = [i \in 0..n |-> IF i = 0 THEN <<>> ELSE More(i, M[i - 1])]
  <1>3. \A i, s : s \in Seq(Label) => More(i, s) \in Seq(Label)
    BY LabelsAreLabels
  <1>4. NameAt(start) = (CHOOSE M : Eq(M))[n]
    <2>1. NameAt(start) = (CHOOSE M : M = [i \in 0..n |->
              IF i = 0 THEN <<>>
              ELSE IF IsLabel(W[i - 1]) THEN Append(M[i - 1], msg[W[i - 1]].label)
              ELSE M[i - 1]])[n]
      BY <1>1, <1>2 DEF NameAt
    <2> QED BY <2>1
  <1> HIDE DEF More
  <1>5. PICK g : g = [x \in Nat \X Seq(Label) |-> More(x[1], x[2])]
    OBVIOUS
  <1>6. g \in Makers(Seq(Label))
    BY <1>3, <1>5 DEF Makers
  <1>7. <<>> \in Seq(Label)
    OBVIOUS
  <1>8. PICK f : IsRun(f, n, Seq(Label), <<>>, g)
    BY <1>6, <1>7, Recursion, Zenon
  <1>9. \A i \in 1..n : i \in Nat /\ i - 1 \in 0..n
    OBVIOUS
  <1>10. f \in [0..n -> Seq(Label)] /\ f[0] = <<>> /\ \A i \in 1..n : f[i] = More(i, f[i - 1])
    BY <1>5, <1>8, <1>9 DEF IsRun
  <1>11. Eq(f)
    <2>1. \A i \in 0..n : f[i] = IF i = 0 THEN <<>> ELSE More(i, f[i - 1])
      BY <1>10
    <2> QED BY <1>10, <2>1
  <1>12. PICK M : M = CHOOSE m : Eq(m)
    OBVIOUS
  <1>13. Eq(M)
    BY <1>11, <1>12
  <1>14. M[0] = <<>> /\ \A i \in 1..n : M[i] = More(i, M[i - 1])
    BY <1>13
  <1>15. M \in [0..n -> Seq(Label)]
    <2>1. SUFFICES ASSUME NEW i \in 0..n PROVE M[i] \in Seq(Label)
      BY <1>13
    <2> DEFINE S == {j \in Nat : j <= n => M[j] \in Seq(Label)}
    <2>2. 0 \in S
      BY <1>7, <1>14
    <2>3. ASSUME NEW j \in 0..(i - 1), j \in S PROVE j + 1 \in S
      <3>1. j + 1 \in 1..n /\ (j + 1) - 1 = j /\ M[j] \in Seq(Label)
        BY <2>1, <2>3
      <3>2. M[j + 1] = More(j + 1, M[j])
        BY <1>14, <3>1
      <3>3. M[j + 1] \in Seq(Label)
        BY <1>3, <3>1, <3>2
      <3> QED BY <3>3
    <2> HIDE DEF S
    <2>4. i \in S
      BY <2>1, <2>2, <2>3, Climb
    <2> QED BY <2>4 DEF S
  <1>16. IsMet(M, W)
    BY <1>1, <1>14, <1>15 DEF IsMet, More
  <1> QED BY <1>1, <1>2, <1>4, <1>12, <1>16

LEMMA AppendConcat ==
    ASSUME NEW s \in Seq(Label), NEW t \in Seq(Label), NEW a \in Label
    PROVE  s \o (<<a>> \o t) = Append(s, a) \o t
  <1>1. <<a>> \in Seq(Label)
    OBVIOUS
  <1>2. (s \o <<a>>) \o t = s \o (<<a>> \o t)
    BY <1>1, ConcatAssociative
  <1>3. Append(s, a) = s \o <<a>>
    BY AppendIsConcat
  <1> QED BY <1>2, <1>3

\* What has been met and what the call at hand returns make the whole name.
RestOfName(P, W, M, d, i) ==
    /\ P[<<d, W[i]>>].ok /\ P[<<d, W[i]>>].name \in Seq(Label)
    /\ M[i] \o P[<<d, W[i]>>].name = M[Len(msg) + 1]

IsPointer(p) == Within(p) /\ msg[p].is = "pointer"

LEMMA NameReadOn ==
    ASSUME Legible, NEW P, IsParse(P), NEW W \in [0..(Len(msg) + 1) -> Nat],
           NEW M, IsMet(M, W), NEW i \in 0..Len(msg), W[i + 1] = After(W[i]), OnWay(W[i]),
           NEW d \in 0..MaxDepth,
           W[i + 1] # 0 /\ IsPointer(W[i]) => d > 0 /\ RestOfName(P, W, M, d - 1, i + 1),
           W[i + 1] # 0 /\ ~IsPointer(W[i]) => RestOfName(P, W, M, d, i + 1),
           W[i + 1] = 0 => M[i + 1] = M[Len(msg) + 1]
    PROVE  RestOfName(P, W, M, d, i)
  <1>1. PICK l \in Nat : l = Len(msg)
    BY DEF Legible
  <1>2. i + 1 \in 1..(l + 1) /\ (i + 1) - 1 = i /\ i \in 0..(l + 1) /\ i + 1 \in 0..(l + 1)
    BY <1>1
  <1>3. M[i] \in Seq(Label) /\ M[i + 1] \in Seq(Label) /\ W[i] \in Offsets
    BY <1>1, <1>2 DEF IsMet, OnWay
  <1>4. /\ IsLabel(W[i]) => M[i + 1] = Append(M[i], msg[W[i]].label)
        /\ ~IsLabel(W[i]) => M[i + 1] = M[i]
    BY <1>1, <1>2 DEF IsMet
  <1>5. CASE IsLabel(W[i])
    <2>1. After(W[i]) = W[i] + 1 /\ W[i] + 1 # 0
      <3>1. After(W[i]) = W[i] + 1
        BY <1>5, AfterLabel, Zenon
      <3>2. PICK w \in Nat : w = W[i]
        BY <1>3 DEF Offsets
      <3>3. w + 1 # 0
        OBVIOUS
      <3> QED BY <3>1, <3>2, <3>3
    <2>2. RestOfName(P, W, M, d, i + 1)
      <3>1. W[i + 1] # 0
        BY <2>1
      <3>2. ~IsPointer(W[i])
        BY <1>5 DEF IsLabel, IsPointer
      <3> QED BY <3>1, <3>2
    <2>3. PICK r : r = P[<<d, W[i] + 1>>]
      OBVIOUS
    <2>4. r.ok /\ r.name \in Seq(Label) /\ M[i + 1] \o r.name = M[l + 1]
      BY <1>1, <2>1, <2>2, <2>3 DEF RestOfName
    <2>5. PICK a \in Label : a = msg[W[i]].label
      BY <1>5, LabelsAreLabels
    <2>6. P[<<d, W[i]>>].name = <<a>> \o r.name /\ P[<<d, W[i]>>].ok = r.ok
      BY <1>3, <1>5, <2>3, <2>5, TurnLabel
    <2>7. M[i] \o (<<a>> \o r.name) = Append(M[i], a) \o r.name
      BY <1>3, <2>4, AppendConcat
    <2>8. <<a>> \o r.name \in Seq(Label)
      BY <2>4, <2>5
    <2> QED BY <1>1, <1>4, <1>5, <2>4, <2>5, <2>6, <2>7, <2>8 DEF RestOfName
  <1>6. CASE Within(W[i]) /\ msg[W[i]].is = "pointer"
    <2>1. PICK t \in Offsets : t = msg[W[i]].target
      BY <1>6 DEF Legible, Within, OnWay
    <2>2. After(W[i]) = t /\ t # 0 /\ ~IsLabel(W[i])
      BY <1>6, <2>1 DEF After, IsLabel, Offsets
    <2>3. d > 0 /\ RestOfName(P, W, M, d - 1, i + 1)
      BY <1>6, <2>2 DEF IsPointer
    <2>4. P[<<d, W[i]>>].name = P[<<d - 1, t>>].name /\ P[<<d, W[i]>>].ok = P[<<d - 1, t>>].ok
      <3>1. d # 0
        BY <2>3
      <3>2. W[i] \in Offsets /\ d \in 0..MaxDepth
        BY <1>3
      <3>3. /\ P[<<d, W[i]>>].name = P[<<d - 1, msg[W[i]].target>>].name
            /\ P[<<d, W[i]>>].ok = P[<<d - 1, msg[W[i]].target>>].ok
        BY <1>6, <3>1, <3>2, TurnPointer, Zenon
      <3> QED BY <2>1, <3>3
    <2> QED BY <1>4, <2>2, <2>3, <2>4 DEF RestOfName
  <1>7. CASE Within(W[i]) /\ msg[W[i]].is = "end"
    <2>1. After(W[i]) = 0 /\ ~IsLabel(W[i])
      BY <1>7 DEF After, IsLabel
    <2>2. P[<<d, W[i]>>].name = <<>> /\ P[<<d, W[i]>>].ok
      BY <1>3, <1>7, TurnEnd
    <2> QED BY <1>3, <1>4, <2>1, <2>2 DEF RestOfName
  <1>8. CASE ~Within(W[i])
    <2>1. After(W[i]) = 0 /\ ~IsLabel(W[i]) /\ W[i] > Len(msg)
      BY <1>1, <1>3, <1>8 DEF After, IsLabel, Within, Offsets
    <2>2. P[<<d, W[i]>>].name = <<>> /\ P[<<d, W[i]>>].ok
      BY <1>3, <2>1, TurnPast
    <2> QED BY <1>3, <1>4, <2>1, <2>2 DEF RestOfName
  <1> QED BY <1>5, <1>6, <1>7, <1>8 DEF OnWay, IsName, IsLabel

\* The walk from a name, as the two lemmas below need it.
IsWay(W, start) ==
    /\ IsWalk(W, start)
    /\ \A i \in 0..(Len(msg) + 1) : W[i] = 0 \/ OnWay(W[i])

\* Calls enough for the pointers ahead, at each step of the walk.
IsBudget(D, W) ==
    /\ D \in [0..(Len(msg) + 1) -> 0..MaxDepth]
    /\ \A i \in 0..Len(msg) : /\ D[i + 1] <= D[i]
                              /\ IsPointer(W[i]) => D[i + 1] < D[i]

LEMMA NameRead ==
    ASSUME Legible, NEW P, IsParse(P), NEW start, OnWay(start),
           NEW W, IsWay(W, start), NEW M, IsMet(M, W), ~Within(W[Len(msg) + 1]),
           NEW D, IsBudget(D, W)
    PROVE  P[<<MaxDepth, start>>].ok /\ P[<<MaxDepth, start>>].name = M[Len(msg) + 1]
  <1>1. PICK l \in Nat : l = Len(msg)
    BY DEF Legible
  <1>2. /\ MaxDepth \in Nat /\ D \in [0..(l + 1) -> 0..MaxDepth]
        /\ \A i \in 0..l : D[i + 1] <= D[i] /\ (IsPointer(W[i]) => D[i + 1] < D[i])
    BY <1>1, DepthIsEnough DEF IsBudget
  <1>3. W \in [0..(l + 1) -> Nat] /\ W[0] = start /\ M \in [0..(l + 1) -> Seq(Label)]
    BY <1>1 DEF IsWay, IsWalk, IsMet
  <1>4. \A i \in 0..(l + 1) : W[i] = 0 \/ OnWay(W[i])
    BY <1>1 DEF IsWay
  <1> DEFINE Good(k) ==
          /\ W[l + 1 - k] # 0 => \A d \in D[l + 1 - k]..MaxDepth :
                                  RestOfName(P, W, M, d, l + 1 - k)
          /\ W[l + 1 - k] = 0 => M[l + 1 - k] = M[l + 1]
             S == {k \in Nat : Good(k)}
  <1>5. 0 \in S
    <2>1. SUFFICES ASSUME W[l + 1] # 0, NEW d \in 0..MaxDepth
                   PROVE  RestOfName(P, W, M, d, l + 1)
      <3>1. l + 1 - 0 = l + 1 /\ l + 1 \in 0..(l + 1)
        BY <1>1
      <3>2. \A d \in D[l + 1]..MaxDepth : d \in 0..MaxDepth
        BY <1>2, <3>1
      <3> QED BY <3>1, <3>2
    <2>2. W[l + 1] \in Offsets /\ M[l + 1] \in Seq(Label) /\ W[l + 1] \in Nat
      BY <1>3, <1>4, <2>1 DEF OnWay
    <2>3. W[l + 1] > Len(msg)
      BY <1>1, <2>1, <2>2 DEF Within
    <2>4. P[<<d, W[l + 1]>>].name = <<>> /\ P[<<d, W[l + 1]>>].ok
      BY <2>2, <2>3, TurnPast
    <2> QED BY <1>1, <2>2, <2>4 DEF RestOfName
  <1>6. ASSUME NEW k \in 0..l, k \in S PROVE k + 1 \in S
    <2>1. PICK i \in 0..l : i = l - k
      <3>1. l - k \in 0..l
        BY <1>1
      <3> QED BY <3>1
    <2>2. l + 1 - k = i + 1 /\ l + 1 - (k + 1) = i /\ i \in 0..(l + 1) /\ i + 1 \in 1..(l + 1)
      BY <2>1
    <2>3. W[i + 1] # 0 => \A d \in D[i + 1]..MaxDepth : RestOfName(P, W, M, d, i + 1)
      BY <1>6, <2>2
    <2>4. W[i + 1] = 0 => M[i + 1] = M[l + 1]
      BY <1>6, <2>2
    <2>5. W[i + 1] = After(W[i])
      <3>1. (i + 1) - 1 = i
        BY <2>1
      <3> QED BY <1>1, <2>2, <3>1 DEF IsWay, IsWalk
    <2>6. ASSUME W[i] # 0, NEW d \in D[i]..MaxDepth PROVE RestOfName(P, W, M, d, i)
      <3>1. PICK a \in 0..MaxDepth, b \in 0..MaxDepth :
                a = D[i] /\ b = D[i + 1] /\ b <= a /\ (IsPointer(W[i]) => b < a)
        BY <1>2, <2>2
      <3>2. d \in 0..MaxDepth /\ d \in b..MaxDepth /\ (b < a => d > 0 /\ d - 1 \in b..MaxDepth)
        BY <1>2, <2>6, <3>1
      <3>3. OnWay(W[i])
        BY <1>4, <2>2, <2>6
      <3>4. W[i + 1] # 0 /\ IsPointer(W[i]) => d > 0 /\ RestOfName(P, W, M, d - 1, i + 1)
        BY <2>3, <3>1, <3>2
      <3>5. W[i + 1] # 0 /\ ~IsPointer(W[i]) => RestOfName(P, W, M, d, i + 1)
        BY <2>3, <3>1, <3>2
      <3> QED BY <1>1, <1>3, <2>4, <2>5, <3>2, <3>3, <3>4, <3>5, NameReadOn
    <2>7. ASSUME W[i] = 0 PROVE M[i] = M[l + 1]
      <3>1. ~Within(0) /\ ~IsLabel(0)
        BY <1>1 DEF Within, IsLabel
      <3>2. W[i + 1] = 0
        BY <2>5, <2>7, <3>1 DEF After
      <3>3. (i + 1) - 1 = i
        BY <2>1
      <3>4. M[i + 1] = M[i]
        BY <1>1, <2>2, <2>7, <3>1, <3>3 DEF IsMet
      <3> QED BY <2>4, <3>2, <3>4
    <2>8. Good(k + 1)
      BY <2>2, <2>6, <2>7
    <2> HIDE DEF Good
    <2> QED BY <2>8
  <1> HIDE DEF S
  <1>7. l + 1 \in S
    <2>1. \A k \in 0..((l + 1) - 1) : k \in S => k + 1 \in S
      BY <1>6
    <2> QED BY <1>5, <2>1, Climb
  <1>8. l + 1 - (l + 1) = 0 /\ start # 0 /\ MaxDepth \in D[0]..MaxDepth
    <2>1. PICK a \in 0..MaxDepth : a = D[0]
      BY <1>1, <1>2
    <2> QED BY <1>2, <2>1 DEF OnWay, Offsets
  <1>9. RestOfName(P, W, M, MaxDepth, 0)
    BY <1>3, <1>7, <1>8 DEF S
  <1>10. M[0] = <<>>
    BY DEF IsMet
  <1>11. <<>> \o P[<<MaxDepth, start>>].name = P[<<MaxDepth, start>>].name
    BY <1>3, <1>9 DEF RestOfName
  <1> QED BY <1>3, <1>9, <1>10, <1>11 DEF RestOfName

-----------------------------------------------------------------------------
(* Names: a loop of pointers.                                              *)

\* A set of places that reading never leaves.
IsTrap(C) ==
    /\ C \subseteq 1..Len(msg)
    /\ \A p \in C : IsName(msg[p]) /\ msg[p].is # "end" /\ After(p) \in C

LEMMA TrapFails ==
    ASSUME Legible, NEW P, IsParse(P), NEW C, IsTrap(C), NEW q \in C
    PROVE  P[<<MaxDepth, q>>].ok = FALSE
  <1>1. PICK l \in Nat : l = Len(msg)
    BY DEF Legible
  <1>2. MaxDepth \in Nat
    BY DepthIsEnough
  <1> DEFINE Fails(d, p) == P[<<d, p>>].ok = FALSE
             S == {d \in Nat : \A e \in 0..MaxDepth : e < d => \A p \in C : Fails(e, p)}
  <1>3. 0 \in S
    OBVIOUS
  <1>4. ASSUME NEW d \in 0..MaxDepth, d \in S PROVE d + 1 \in S
    <2> DEFINE T == {k \in Nat : \A p \in C : p > l - k => Fails(d, p)}
    <2>1. 0 \in T
      BY <1>1 DEF IsTrap
    <2>2. ASSUME NEW k \in 0..(l - 1), k \in T PROVE k + 1 \in T
      <3> HIDE DEF Fails
      <3> SUFFICES ASSUME NEW p \in C, p > l - (k + 1) PROVE Fails(d, p)
        OBVIOUS
      <3> USE DEF Fails
      <3>1. p \in 1..l /\ p \in Offsets /\ Within(p) /\ IsName(msg[p]) /\ msg[p].is # "end"
            /\ After(p) \in C
        BY <1>1 DEF IsTrap, Offsets, Within
      <3>2. CASE IsLabel(p)
        <4>1. After(p) = p + 1
          BY <3>1, <3>2 DEF After, IsLabel
        <4>2. p + 1 \in C /\ p + 1 > l - k
          BY <3>1, <4>1
        <4>3. Fails(d, p + 1)
          BY <2>2, <4>2
        <4> QED BY <3>1, <3>2, <4>3, TurnLabel
      <3>3. CASE ~IsLabel(p)
        <4>1. msg[p].is = "pointer"
          BY <3>1, <3>3 DEF IsName, IsLabel
        <4>2. After(p) = msg[p].target
          BY <3>1, <3>3, <4>1 DEF After
        <4>3. CASE d = 0
          BY <3>1, <4>1, <4>3, TurnPointer
        <4>4. CASE d # 0
          <5>1. d - 1 \in 0..MaxDepth /\ d - 1 < d
            BY <1>2, <4>4
          <5>2. Fails(d - 1, msg[p].target)
            BY <1>4, <3>1, <4>2, <5>1
          <5> QED BY <3>1, <4>1, <4>4, <5>2, TurnPointer
        <4> QED BY <4>3, <4>4
      <3> QED BY <3>2, <3>3
    <2>3. l \in T
      <3> HIDE DEF T
      <3> QED BY <2>1, <2>2, Climb
    <2>4. \A p \in C : p > l - l
      BY <1>1 DEF IsTrap
    <2>5. \A p \in C : Fails(d, p)
      BY <2>3, <2>4
    <2> HIDE DEF Fails
    <2>6. \A e \in 0..MaxDepth : e < d + 1 => e < d \/ e = d
      OBVIOUS
    <2> QED BY <1>4, <2>5, <2>6
  <1>5. MaxDepth + 1 \in S
    <2> HIDE DEF S
    <2>1. \A d \in 0..((MaxDepth + 1) - 1) : d \in S => d + 1 \in S
      BY <1>2, <1>4
    <2> QED BY <1>2, <1>3, <2>1, Climb
  <1>6. MaxDepth \in 0..MaxDepth /\ MaxDepth < MaxDepth + 1
    BY <1>2
  <1> QED BY <1>5, <1>6

LEMMA LoopFails ==
    ASSUME Legible, NEW P, IsParse(P), NEW start, OnWay(start),
           NEW W, IsWay(W, start), Within(W[Len(msg) + 1])
    PROVE  P[<<MaxDepth, start>>].ok = FALSE
  <1>1. PICK l \in Nat : l = Len(msg)
    BY DEF Legible
  <1>2. W \in [0..(l + 1) -> Nat] /\ W[0] = start
    BY <1>1 DEF IsWay, IsWalk
  <1>3. \A i \in 0..l : W[i + 1] = After(W[i])
    <2>1. \A i \in 0..l : i + 1 \in 1..(l + 1) /\ (i + 1) - 1 = i
      OBVIOUS
    <2> QED BY <1>1, <2>1 DEF IsWay, IsWalk
  <1> DEFINE S == {k \in Nat : k <= l + 1 => Within(W[l + 1 - k])}
  <1>4. 0 \in S
    BY <1>1
  <1>5. ASSUME NEW k \in 0..l, k \in S PROVE k + 1 \in S
    <2>1. PICK i \in 0..l : i = l - k
      <3>1. l - k \in 0..l
        BY <1>1
      <3> QED BY <3>1
    <2>2. l + 1 - k = i + 1 /\ l + 1 - (k + 1) = i /\ k <= l + 1 /\ i \in 0..(l + 1)
      BY <2>1
    <2>3. Within(W[i + 1])
      BY <1>5, <2>2
    <2>4. After(W[i]) # 0
      BY <1>1, <1>3, <2>3 DEF Within
    <2>5. Within(W[i])
      BY <1>2, <2>2, <2>4, AfterOnWay
    <2> QED BY <2>2, <2>5
  <1>6. ASSUME NEW i \in 0..(l + 1) PROVE Within(W[i])
    <2>1. PICK k \in 0..(l + 1) : l + 1 - k = i
      <3>1. l + 1 - i \in 0..(l + 1) /\ l + 1 - (l + 1 - i) = i
        BY <1>1
      <3> QED BY <3>1
    <2>2. k \in S
      <3> HIDE DEF S
      <3>1. \A j \in 0..(k - 1) : j \in 0..l
        BY <2>1
      <3> QED BY <1>4, <1>5, <3>1, <2>1, Climb
    <2> QED BY <2>1, <2>2
  <1>7. ASSUME NEW i \in 0..l PROVE IsName(msg[W[i]]) /\ msg[W[i]].is # "end"
    <2>1. i \in 0..(l + 1) /\ i + 1 \in 0..(l + 1)
      OBVIOUS
    <2>2. After(W[i]) # 0
      BY <1>1, <1>3, <1>6, <2>1 DEF Within
    <2>3. W[i] \in Nat /\ Within(W[i])
      BY <1>2, <1>6, <2>1
    <2>4. W[i] # 0
      BY <1>1, <2>3 DEF Within
    <2>5. OnWay(W[i])
      BY <1>1, <2>1, <2>4 DEF IsWay
    <2> QED BY <2>2, <2>3, <2>5, AfterOnWay DEF OnWay
  <1>8. PICK x \in 0..l, y \in 0..l : x < y /\ W[x] = W[y]
    <2>1. PICK w : w = [i \in 0..l |-> W[i]]
      OBVIOUS
    <2>2. w \in [0..l -> 1..l]
      <3>1. \A i \in 0..l : i \in 0..(l + 1)
        OBVIOUS
      <3>2. \A i \in 0..l : W[i] \in 1..l
        BY <1>1, <1>6, <3>1 DEF Within
      <3> QED BY <2>1, <3>2
    <2>3. IsFiniteSet(0..l) /\ IsFiniteSet(1..l) /\ Cardinality(1..l) < Cardinality(0..l)
      <3>1. IsFiniteSet(0..l) /\ Cardinality(0..l) = l + 1
        <4>1. IsFiniteSet(0..l) /\ Cardinality(0..l) = IF 0 > l THEN 0 ELSE l - 0 + 1
          BY FS_Interval
        <4> QED BY <4>1
      <3>2. IsFiniteSet(1..l) /\ Cardinality(1..l) = l
        <4>1. IsFiniteSet(1..l) /\ Cardinality(1..l) = IF 1 > l THEN 0 ELSE l - 1 + 1
          BY FS_Interval
        <4> QED BY <4>1
      <3> QED BY <3>1, <3>2
    <2>4. \E a, b \in 0..l : a # b /\ w[a] = w[b]
      BY <2>2, <2>3, FS_PigeonHole
    <2>5. PICK a \in 0..l, b \in 0..l : a # b /\ W[a] = W[b]
      BY <2>1, <2>4
    <2>6. a < b \/ b < a
      BY <2>5
    <2> QED BY <2>5, <2>6
  <1>9. PICK C : C = {W[i] : i \in 0..(y - 1)}
    OBVIOUS
  <1>10. \A i \in 0..(y - 1) : i \in 0..l /\ i \in 0..(l + 1)
    BY <1>8
  <1>11. C \subseteq 1..l
    BY <1>1, <1>6, <1>9, <1>10 DEF Within
  <1>12. ASSUME NEW p \in C PROVE IsName(msg[p]) /\ msg[p].is # "end" /\ After(p) \in C
    <2>1. PICK i \in 0..(y - 1) : p = W[i]
      BY <1>9
    <2>2. IsName(msg[p]) /\ msg[p].is # "end" /\ After(p) = W[i + 1]
      BY <1>3, <1>7, <1>10, <2>1
    <2>3. CASE i + 1 \in 0..(y - 1)
      BY <1>9, <2>2, <2>3
    <2>4. CASE i + 1 \notin 0..(y - 1)
      <3>1. i + 1 = y /\ x \in 0..(y - 1)
        BY <1>8, <2>1, <2>4
      <3> QED BY <1>8, <1>9, <2>2, <3>1
    <2> QED BY <2>2, <2>3, <2>4
  <1>13. IsTrap(C)
    BY <1>1, <1>11, <1>12 DEF IsTrap
  <1>14. start \in C
    <2>1. 0 \in 0..(y - 1)
      BY <1>8
    <2> QED BY <1>2, <1>9, <2>1
  <1> QED BY <1>13, <1>14, TrapFails

\* Calls never run out where no loop is.
Shallow ==
    \A start, W : OnWay(start) /\ IsWay(W, start) /\ ~Within(W[Len(msg) + 1])
                  => \E D : IsBudget(D, W)

LEMMA ShortIsShallow ==
    ASSUME Legible, Len(msg) < MaxDepth
    PROVE  Shallow
  <1>1. PICK l \in Nat : l = Len(msg) /\ l + 1 <= MaxDepth /\ MaxDepth \in Nat
    BY DepthIsEnough DEF Legible
  <1>2. ASSUME NEW W PROVE \E D : IsBudget(D, W)
    <2>1. PICK D : D = [i \in 0..(l + 1) |-> l + 1 - i]
      OBVIOUS
    <2>2. D \in [0..(l + 1) -> 0..MaxDepth]
      BY <1>1, <2>1
    <2>3. \A i \in 0..l : D[i + 1] < D[i] /\ D[i + 1] <= D[i]
      BY <2>1
    <2>4. IsBudget(D, W)
      BY <1>1, <2>2, <2>3 DEF IsBudget
    <2> QED BY <2>4
  <1> QED BY <1>2 DEF Shallow

\* One call is enough where a pointer leads to a place from which no other is met.
LEMMA OnePointerIsShallow ==
    ASSUME Legible, NEW C, \A p \in C : After(p) \in C /\ ~IsPointer(p),
           \A p : IsPointer(p) => After(p) \in C
    PROVE  Shallow
  <1>1. PICK l \in Nat : l = Len(msg)
    BY DEF Legible
  <1>2. 0 \in 0..MaxDepth /\ 1 \in 0..MaxDepth
    BY DepthIsEnough
  <1>3. ASSUME NEW start, NEW W, IsWay(W, start) PROVE \E D : IsBudget(D, W)
    <2>1. PICK D : D = [i \in 0..(l + 1) |-> IF W[i] \in C THEN 0 ELSE 1]
      OBVIOUS
    <2>2. D \in [0..(l + 1) -> 0..MaxDepth]
      BY <1>2, <2>1
    <2>3. ASSUME NEW i \in 0..l
          PROVE  D[i + 1] <= D[i] /\ (IsPointer(W[i]) => D[i + 1] < D[i])
      <3>1. i \in 0..(l + 1) /\ i + 1 \in 1..(l + 1) /\ i + 1 \in 0..(l + 1) /\ (i + 1) - 1 = i
        OBVIOUS
      <3>2. W[i + 1] = After(W[i])
        BY <1>1, <1>3, <3>1 DEF IsWay, IsWalk
      <3>3. /\ D[i] = IF W[i] \in C THEN 0 ELSE 1
            /\ D[i + 1] = IF W[i + 1] \in C THEN 0 ELSE 1
        BY <2>1, <3>1
      <3>4. W[i] \in C => W[i + 1] \in C /\ ~IsPointer(W[i])
        BY <3>2
      <3>5. IsPointer(W[i]) => W[i + 1] \in C
        BY <3>2
      <3> QED BY <3>3, <3>4, <3>5
    <2>4. IsBudget(D, W)
      BY <1>1, <2>2, <2>3 DEF IsBudget
    <2> QED BY <2>4
  <1> QED BY <1>3 DEF Shallow

LEMMA LegibleIsRead ==
    ASSUME Legible, Shallow PROVE NamesRead
  <1>1. PICK P : IsParse(P) /\ \A start : ParseName(start) = P[<<MaxDepth, start>>]
    BY ParseUnfolds
  <1>2. ASSUME NEW start \in 1..Len(msg), IsName(msg[start])
        PROVE  LET p == ParseName(start) IN
               /\ p.ok <=> ~Loops(start)
               /\ p.ok => p.name = NameAt(start) /\ p.off = NameEnds(start)
    <2>1. start \in Nat /\ OnWay(start) /\ start \in 1..(Len(msg) + 1)
      BY <1>2 DEF Legible, OnWay, Offsets
    <2>2. PICK W : W = Walk(start)
      OBVIOUS
    <2>3. IsWay(W, start)
      <3>1. IsWalk(W, start)
        BY <2>1, <2>2, WalkUnfolds
      <3> QED BY <2>1, <3>1, WalkStays DEF IsWay
    <2>4. PICK M : IsMet(M, W) /\ NameAt(start) = M[Len(msg) + 1]
      BY <2>1, <2>2, NameUnfolds
    <2>5. Loops(start) <=> Within(W[Len(msg) + 1])
      BY <2>2 DEF Loops
    <2>6. PICK p : p = P[<<MaxDepth, start>>]
      OBVIOUS
    <2>7. p.off = NameEnds(start)
      <3>1. MaxDepth \in 1..MaxDepth
        BY DepthIsEnough
      <3> QED BY <1>1, <2>1, <2>6, <3>1, ReadsToEnd
    <2>8. CASE Within(W[Len(msg) + 1])
      <3>1. p.ok = FALSE
        BY <1>1, <2>1, <2>3, <2>6, <2>8, LoopFails
      <3> QED BY <1>1, <2>5, <2>6, <2>8, <3>1
    <2>9. CASE ~Within(W[Len(msg) + 1])
      <3>1. PICK D : IsBudget(D, W)
        BY <2>1, <2>3, <2>9 DEF Shallow
      <3>2. p.ok /\ p.name = M[Len(msg) + 1]
        BY <1>1, <2>1, <2>3, <2>4, <2>6, <2>9, <3>1, NameRead
      <3> QED BY <1>1, <2>4, <2>5, <2>6, <2>7, <2>9, <3>2
    <2> QED BY <2>8, <2>9
  <1> QED BY <1>2 DEF NamesRead

-----------------------------------------------------------------------------
(* Replies: the tokens they are made of.                                   *)

Token == {LabelToken(l) : l \in Label} \cup {End, Pointer(1), Pointer(2), Question} \cup Data

\* One record: its owner and its data.
IsRecord(r) ==
    /\ r \in Seq(Token) /\ r[Len(r)] \in Data
    /\ \/ /\ Len(r) = 2
          /\ r[1] \in {Pointer(1), Pointer(2)}
       \/ /\ Len(r) = 3
          /\ r[1] \in {LabelToken(l) : l \in Label}
          /\ r[2] \in {End, Pointer(1)}

LEMMA WrittenIs ==
    ASSUME NEW name \in Seq(Label)
    PROVE  /\ Written(name) \in Seq(Token) /\ Len(Written(name)) = Len(name) + 1
           /\ \A i \in 1..Len(name) : Written(name)[i] = LabelToken(name[i])
           /\ Written(name)[Len(name) + 1] = End
  <1>1. PICK n \in Nat : n = Len(name)
    OBVIOUS
  <1>2. PICK s : s = [i \in 1..n |-> LabelToken(name[i])]
    OBVIOUS
  <1>3. \A i \in 1..n : LabelToken(name[i]) \in Token
    BY <1>1 DEF Token
  <1>4. s \in Seq(Token) /\ Len(s) = n
    BY <1>2, <1>3
  <1>5. <<End>> \in Seq(Token) /\ Len(<<End>>) = 1 /\ <<End>>[1] = End
    BY DEF Token
  <1>6. Written(name) = s \o <<End>>
    BY <1>1, <1>2 DEF Written
  <1> QED BY <1>1, <1>2, <1>4, <1>5, <1>6

\* t is s with one token more.
Longer(t, s, d) ==
    /\ t \in Seq(Token) /\ Len(t) = Len(s) + 1 /\ t[Len(s) + 1] = d
    /\ \A i \in 1..Len(s) : t[i] = s[i]

LEMMA OneMore ==
    ASSUME NEW s \in Seq(Token), NEW d \in Token
    PROVE  Longer(s \o <<d>>, s, d)
  <1>1. s \o <<d>> = Append(s, d)
    BY AppendIsConcat
  <1>2. /\ Append(s, d) \in Seq(Token) /\ Len(Append(s, d)) = Len(s) + 1
        /\ \A i \in 1..Len(s) : Append(s, d)[i] = s[i]
        /\ Append(s, d)[Len(s) + 1] = d
    OBVIOUS
  <1> QED BY <1>1, <1>2 DEF Longer

LEMMA RecordsAreRecords ==
    ASSUME NEW record \in Records
    PROVE  IsRecord(record)
  <1>1. PICK o \in Owners, d \in Data : record = o \o <<d>>
    <2>1. PICK r \in Owners \X Data : record = r[1] \o <<r[2]>>
      BY DEF Records
    <2>2. PICK o \in Owners, d \in Data : r = <<o, d>>
      BY <2>1
    <2> QED BY <2>1, <2>2
  <1>2. d \in Token
    BY DEF Token
  <1>3. CASE o = <<Pointer(1)>> \/ o = <<Pointer(2)>>
    <2>1. PICK p \in {Pointer(1), Pointer(2)} : o = <<p>>
      BY <1>3
    <2>2. p \in Token
      BY DEF Token
    <2>3. o \in Seq(Token) /\ Len(o) = 1 /\ o[1] = p
      BY <2>1, <2>2
    <2>4. record \in Seq(Token) /\ Len(record) = 2 /\ record[1] = p /\ record[2] = d
      <3>1. Longer(record, o, d)
        BY <1>1, <1>2, <2>3, OneMore, Zenon
      <3>2. 1 \in 1..Len(o) /\ Len(o) \in 1..Len(o)
        BY <2>3
      <3> QED BY <2>3, <3>1, <3>2 DEF Longer
    <2> QED BY <2>4 DEF IsRecord
  <1>4. CASE o \in {<<LabelToken(l), Pointer(1)>> : l \in Label}
    <2>1. PICK l \in Label : o = <<LabelToken(l), Pointer(1)>>
      BY <1>4
    <2>2. LabelToken(l) \in Token /\ Pointer(1) \in Token
      BY DEF Token
    <2>3. o \in Seq(Token) /\ Len(o) = 2 /\ o[1] = LabelToken(l) /\ o[2] = Pointer(1)
      BY <2>1, <2>2
    <2>4. /\ record \in Seq(Token) /\ Len(record) = 3
          /\ record[1] = LabelToken(l) /\ record[2] = Pointer(1) /\ record[3] = d
      <3>1. Longer(record, o, d)
        BY <1>1, <1>2, <2>3, OneMore, Zenon
      <3>2. 1 \in 1..Len(o) /\ Len(o) \in 1..Len(o)
        BY <2>3
      <3> QED BY <2>3, <3>1, <3>2 DEF Longer
    <2> QED BY <2>4 DEF IsRecord
  <1>5. CASE o \in {Written(<<l>>) : l \in Label}
    <2>1. PICK l \in Label : o = Written(<<l>>)
      BY <1>5
    <2>2. <<l>> \in Seq(Label) /\ Len(<<l>>) = 1 /\ <<l>>[1] = l
      OBVIOUS
    <2>3. o \in Seq(Token) /\ Len(o) = 2 /\ o[1] = LabelToken(l) /\ o[2] = End
      <3>1. PICK name \in Seq(Label) : name = <<l>>
        BY <2>2
      <3>2. Len(name) = 1 /\ name[1] = l /\ 1 \in 1..Len(name)
        BY <2>2, <3>1
      <3>3. /\ Written(name) \in Seq(Token) /\ Len(Written(name)) = Len(name) + 1
            /\ Written(name)[1] = LabelToken(name[1]) /\ Written(name)[Len(name) + 1] = End
        BY <3>2, WrittenIs
      <3>4. o = Written(name)
        BY <2>1, <3>1
      <3> QED BY <3>2, <3>3, <3>4
    <2>4. /\ record \in Seq(Token) /\ Len(record) = 3
          /\ record[1] = LabelToken(l) /\ record[2] = End /\ record[3] = d
      <3>1. Longer(record, o, d)
        BY <1>1, <1>2, <2>3, OneMore, Zenon
      <3>2. 1 \in 1..Len(o) /\ Len(o) \in 1..Len(o)
        BY <2>3
      <3> QED BY <2>3, <3>1, <3>2 DEF Longer
    <2> QED BY <2>4 DEF IsRecord
  <1> QED BY <1>3, <1>4, <1>5 DEF Owners

\* The name asked for.
IsQName(qname) == \E a, b \in Label : qname = <<a>> \/ qname = <<a, b>>
Asked(qname) == Written(qname) \o <<Question>>

LEMMA AskedIs ==
    ASSUME NEW qname, IsQName(qname)
    PROVE  /\ qname \in Seq(Label) /\ Len(qname) \in 1..2
           /\ Asked(qname) \in Seq(Token) /\ Len(Asked(qname)) = Len(qname) + 2
           /\ \A i \in 1..Len(qname) : Asked(qname)[i] = LabelToken(qname[i])
           /\ Asked(qname)[Len(qname) + 1] = End /\ Asked(qname)[Len(qname) + 2] = Question
  <1>1. qname \in Seq(Label) /\ Len(qname) \in 1..2
    <2>1. PICK a \in Label, b \in Label : qname = <<a>> \/ qname = <<a, b>>
      BY DEF IsQName
    <2>2. CASE qname = <<a>>
      BY <2>2
    <2>3. CASE qname = <<a, b>>
      BY <2>3
    <2> QED BY <2>1, <2>2, <2>3
  <1>2. PICK s : s = Written(qname)
    OBVIOUS
  <1>3. /\ s \in Seq(Token) /\ Len(s) = Len(qname) + 1
        /\ \A i \in 1..Len(qname) : s[i] = LabelToken(qname[i])
        /\ s[Len(qname) + 1] = End
    BY <1>1, <1>2, WrittenIs
  <1>4. <<Question>> \in Seq(Token) /\ Len(<<Question>>) = 1 /\ <<Question>>[1] = Question
    BY DEF Token
  <1>5. Asked(qname) = s \o <<Question>>
    BY <1>2 DEF Asked
  <1> QED BY <1>1, <1>3, <1>4, <1>5

\* A sequence of replies, each the one before with one more record.
IsGrown(G, n, head, records) ==
    /\ n \in Nat /\ records \in [1..n -> Records]
    /\ G \in [0..n -> Seq(Token)] /\ G[0] = head
    /\ \A k \in 1..n : G[k] = G[k - 1] \o records[k]

LEMMA GrownUnfolds ==
    ASSUME NEW head \in Seq(Token), NEW n \in Nat, NEW records \in [1..n -> Records]
    PROVE  IsGrown(Grown(head, records), n, head, records)
  <1>1. records \in Seq(Records) /\ Len(records) = n
    OBVIOUS
  <1>2. \A k \in 1..n : records[k] \in Seq(Token)
    BY RecordsAreRecords DEF IsRecord
  <1> DEFINE More(k, s) == IF k \in 1..n THEN s \o records[k] ELSE s
             Eq(G) == G = [k \in 0..n |-> IF k = 0 THEN head ELSE G[k - 1] \o records[k]]
  <1>3. \A k \in Nat, s \in Seq(Token) : More(k, s) \in Seq(Token)
    BY <1>2
  <1>4. PICK g : g = [x \in Nat \X Seq(Token) |-> More(x[1], x[2])]
    OBVIOUS
  <1>5. g \in Makers(Seq(Token))
    <2> HIDE DEF More
    <2> QED BY <1>3, <1>4 DEF Makers
  <1>6. PICK f : IsRun(f, n, Seq(Token), head, g)
    BY <1>5, Recursion, Zenon
  <1>7. f \in [0..n -> Seq(Token)] /\ f[0] = head /\ \A k \in 1..n : f[k] = g[<<k, f[k - 1]>>]
    BY <1>6 DEF IsRun
  <1>8. ASSUME NEW k \in 1..n PROVE f[k] = f[k - 1] \o records[k]
    <2>1. k \in Nat /\ k - 1 \in 0..n
      OBVIOUS
    <2>2. f[k] = More(k, f[k - 1])
      <3> HIDE DEF More
      <3> QED BY <1>4, <1>7, <2>1
    <2> QED BY <2>2
  <1>9. Eq(f)
    <2> HIDE DEF More
    <2>1. \A k \in 0..n : k = 0 \/ k \in 1..n
      OBVIOUS
    <2>2. \A k \in 1..n : k # 0
      OBVIOUS
    <2>3. \A k \in 0..n : f[k] = IF k = 0 THEN head ELSE f[k - 1] \o records[k]
      BY <1>7, <1>8, <2>1, <2>2, Zenon
    <2> QED BY <1>7, <2>3
  <1>10. PICK G : G = Grown(head, records)
    OBVIOUS
  <1>11. Eq(G)
    <2>1. G = CHOOSE h : Eq(h)
      BY <1>1, <1>10 DEF Grown
    <2> HIDE DEF Eq
    <2> QED BY <1>9, <2>1
  <1>12. G[0] = head /\ \A k \in 1..n : G[k] = G[k - 1] \o records[k]
    BY <1>11
  <1>13. G \in [0..n -> Seq(Token)]
    <2>1. SUFFICES ASSUME NEW i \in 0..n PROVE G[i] \in Seq(Token)
      BY <1>11
    <2> DEFINE S == {j \in Nat : j <= n => G[j] \in Seq(Token)}
    <2>2. 0 \in S
      BY <1>12
    <2>3. ASSUME NEW j \in 0..(i - 1), j \in S PROVE j + 1 \in S
      <3>1. j + 1 \in 1..n /\ (j + 1) - 1 = j /\ G[j] \in Seq(Token)
        BY <2>1, <2>3
      <3>2. G[j + 1] = G[j] \o records[j + 1]
        BY <1>12, <3>1
      <3>3. G[j + 1] \in Seq(Token)
        BY <1>2, <3>1, <3>2
      <3> QED BY <3>3
    <2> HIDE DEF S
    <2>4. i \in S
      BY <2>1, <2>2, <2>3, Climb
    <2> QED BY <2>4 DEF S
  <1> QED BY <1>10, <1>12, <1>13 DEF IsGrown

\* What is there at the end of a reply, and before it, stays.
Grew(s, r, t) ==
    /\ s \in Seq(Token) /\ t \in Seq(Token) /\ IsRecord(r)
    /\ Len(t) = Len(s) + Len(r)
    /\ \A i \in 1..Len(s) : t[i] = s[i]
    /\ \A i \in 1..Len(r) : t[Len(s) + i] = r[i]

LEMMA Grows ==
    ASSUME NEW n, NEW head, NEW records, NEW G, IsGrown(G, n, head, records), NEW k \in 1..n
    PROVE  Grew(G[k - 1], records[k], G[k])
  <1>1. k - 1 \in 0..n /\ k \in 0..n
    BY DEF IsGrown
  <1>2. IsRecord(records[k])
    BY RecordsAreRecords DEF IsGrown
  <1>3. PICK r \in Seq(Token) : r = records[k]
    BY <1>2 DEF IsRecord
  <1>4. PICK s \in Seq(Token) : s = G[k - 1]
    BY <1>1 DEF IsGrown
  <1>5. G[k] = s \o r
    BY <1>3, <1>4 DEF IsGrown
  <1>6. s \o r \in Seq(Token) /\ Len(s \o r) = Len(s) + Len(r)
    OBVIOUS
  <1>7. \A i \in 1..Len(s) : (s \o r)[i] = s[i]
    OBVIOUS
  <1>8. \A i \in 1..Len(r) : (s \o r)[Len(s) + i] = r[i]
    OBVIOUS
  <1> QED BY <1>2, <1>3, <1>4, <1>5, <1>6, <1>7, <1>8 DEF Grew

\* The first reply is a prefix of the second.
Starts(s, t) == Len(s) <= Len(t) /\ \A i \in 1..Len(s) : t[i] = s[i]

LEMMA GrownStarts ==
    ASSUME NEW n, NEW head, NEW records, NEW G, IsGrown(G, n, head, records), NEW k \in 0..n
    PROVE  \A j \in k..n : Starts(G[k], G[j])
  <1>1. \A j \in 0..n : G[j] \in Seq(Token)
    BY DEF IsGrown
  <1> DEFINE S == {m \in Nat : k + m <= n => Starts(G[k], G[k + m])}
  <1>2. 0 \in S
    BY <1>1 DEF Starts
  <1>3. ASSUME NEW m \in 0..(n - 1), m \in S PROVE m + 1 \in S
    <2> n \in Nat
      BY DEF IsGrown
    <2>1. SUFFICES ASSUME k + m + 1 <= n PROVE Starts(G[k], G[k + m + 1])
      OBVIOUS
    <2>2. PICK j \in 1..n : j = k + m + 1
      BY <2>1
    <2>3. Starts(G[k], G[j - 1])
      BY <1>3, <2>2
    <2>4. Grew(G[j - 1], records[j], G[j])
      BY Grows, Zenon
    <2>5. PICK s, t, u : s = G[k] /\ t = G[j - 1] /\ u = G[j]
      OBVIOUS
    <2>6. Len(records[j]) \in Nat /\ Len(s) \in Nat /\ Len(t) \in Nat /\ Len(u) \in Nat
      BY <1>1, <2>4, <2>5 DEF IsRecord, Grew
    <2>7. /\ Len(u) = Len(t) + Len(records[j]) /\ \A i \in 1..Len(t) : u[i] = t[i]
          /\ Len(s) <= Len(t) /\ \A i \in 1..Len(s) : t[i] = s[i]
      BY <2>3, <2>4, <2>5 DEF Starts, Grew
    <2>8. Len(s) <= Len(u) /\ \A i \in 1..Len(s) : u[i] = s[i]
      BY <2>6, <2>7
    <2> QED BY <2>2, <2>5, <2>8 DEF Starts
  <1> HIDE DEF S
  <1>4. ASSUME NEW j \in k..n PROVE Starts(G[k], G[j])
    <2> n \in Nat
      BY DEF IsGrown
    <2>1. j - k \in 0..n /\ k + (j - k) = j
      OBVIOUS
    <2>2. \A m \in 0..((j - k) - 1) : m \in S => m + 1 \in S
      BY <1>3
    <2>3. j - k \in S
      BY <1>2, <2>1, <2>2, Climb
    <2> QED BY <2>1, <2>3 DEF S
  <1> QED BY <1>4

-----------------------------------------------------------------------------
(* Replies: they can be read.                                              *)

\* The message is a reply cut off, and "given" is what should be taken from it.
IsCut(qname, n, records, G, cut) ==
    /\ count \in 0..MaxRecords
    /\ IsQName(qname) /\ n \in 0..MaxRecords /\ IsGrown(G, n, Asked(qname), records)
    /\ cut \in 1..Len(G[n]) /\ msg = SubSeq(G[n], 1, cut)
    /\ given = Meant(qname, records, {k \in 1..n : k <= count /\ Len(G[k]) <= cut})

\* A label is followed by more of a name, and pointers lead into the question.
GoesOn(s) ==
    \A i \in 1..Len(s) :
        /\ s[i].is = "label" => s[i].label \in Label /\ i + 1 <= Len(s) /\ IsName(s[i + 1])
        /\ s[i].is = "pointer" => s[i].target \in 1..2

LEMMA TokensAre ==
    /\ \A l : LabelToken(l).is = "label" /\ LabelToken(l).label = l
    /\ \A i : Pointer(i).is = "pointer" /\ Pointer(i).target = i
    /\ End.is = "end" /\ Question.is = "question"
    /\ \A d \in Data : d.is = "record" /\ d.a \in BOOLEAN
  <1>1. \A isA \in BOOLEAN : \A a : Record(isA, a).is = "record" /\ Record(isA, a).a \in BOOLEAN
    BY DEF Record
  <1>2. \A d \in Data : \E isA \in BOOLEAN : \E a : d = Record(isA, a)
    <2> HIDE DEF Record
    <2> QED BY DEF Data
  <1>3. \A d \in Data : d.is = "record" /\ d.a \in BOOLEAN
    BY <1>1, <1>2
  <1> QED BY <1>3 DEF LabelToken, Pointer, End, Question

LEMMA RecordGoesOn ==
    ASSUME NEW r, IsRecord(r)
    PROVE  GoesOn(r)
  <1>1. CASE Len(r) = 2 /\ r[1] \in {Pointer(1), Pointer(2)}
    <2>1. r[1].is = "pointer" /\ r[1].target \in 1..2
      BY <1>1, TokensAre
    <2>2. r[2].is = "record"
      BY <1>1, TokensAre DEF IsRecord
    <2>3. \A i \in 1..Len(r) : i = 1 \/ i = 2
      BY <1>1
    <2> QED BY <2>1, <2>2, <2>3 DEF GoesOn
  <1>2. CASE Len(r) = 3 /\ r[1] \in {LabelToken(l) : l \in Label} /\ r[2] \in {End, Pointer(1)}
    <2>1. r[1].is = "label" /\ r[1].label \in Label
      BY <1>2, TokensAre
    <2>2. r[2].is = "end" \/ (r[2].is = "pointer" /\ r[2].target \in 1..2)
      BY <1>2, TokensAre
    <2>3. r[3].is = "record"
      BY <1>2, TokensAre DEF IsRecord
    <2>4. \A i \in 1..Len(r) : i = 1 \/ i = 2 \/ i = 3
      BY <1>2
    <2>5. IsName(r[1 + 1])
      BY <2>2 DEF IsName
    <2> QED BY <1>2, <2>1, <2>2, <2>3, <2>4, <2>5 DEF GoesOn
  <1> QED BY <1>1, <1>2 DEF IsRecord

LEMMA AskedGoesOn ==
    ASSUME NEW qname, IsQName(qname)
    PROVE  GoesOn(Asked(qname)) /\ IsName(Asked(qname)[1]) /\ IsName(Asked(qname)[2])
  <1>1. PICK s, l : s = Asked(qname) /\ l = Len(qname)
    OBVIOUS
  <1>2. /\ qname \in Seq(Label) /\ l \in 1..2 /\ Len(s) = l + 2
        /\ \A i \in 1..l : s[i] = LabelToken(qname[i])
        /\ s[l + 1] = End /\ s[l + 2] = Question
    BY <1>1, AskedIs
  <1>3. \A i \in 1..l : s[i].is = "label" /\ s[i].label \in Label
    <2>1. \A i \in 1..l : qname[i] \in Label
      BY <1>1, <1>2
    <2> QED BY <1>2, <2>1, TokensAre
  <1>4. s[l + 1].is = "end" /\ s[l + 2].is = "question"
    BY <1>2, TokensAre
  <1>5. \A i \in 1..(l + 1) : IsName(s[i])
    <2>1. \A i \in 1..(l + 1) : i \in 1..l \/ i = l + 1
      BY <1>2
    <2> QED BY <1>3, <1>4, <2>1 DEF IsName
  <1>6. GoesOn(s)
    <2>1. SUFFICES ASSUME NEW i \in 1..Len(s)
                   PROVE /\ s[i].is = "label" => /\ s[i].label \in Label
                                                 /\ i + 1 <= Len(s) /\ IsName(s[i + 1])
                         /\ s[i].is = "pointer" => s[i].target \in 1..2
      BY DEF GoesOn
    <2>2. CASE i \in 1..l
      <3>1. i + 1 \in 1..(l + 1) /\ i + 1 <= Len(s)
        BY <1>2, <2>2
      <3> QED BY <1>3, <1>5, <2>2, <3>1
    <2>3. CASE i = l + 1 \/ i = l + 2
      BY <1>4, <2>3
    <2> QED BY <1>2, <2>1, <2>2, <2>3
  <1>7. 1 \in 1..(l + 1) /\ 2 \in 1..(l + 1)
    BY <1>2
  <1> QED BY <1>1, <1>5, <1>6, <1>7

LEMMA GoesOnGrown ==
    ASSUME NEW s, NEW r, NEW t, Grew(s, r, t), GoesOn(s)
    PROVE  GoesOn(t)
  <1>1. PICK l \in Nat, m \in Nat : l = Len(s) /\ m = Len(r)
    BY DEF Grew, IsRecord
  <1>2. /\ Len(t) = l + m /\ \A i \in 1..l : t[i] = s[i]
        /\ \A i \in 1..m : t[l + i] = r[i]
    BY <1>1 DEF Grew
  <1>3. GoesOn(r)
    BY RecordGoesOn DEF Grew
  <1> SUFFICES ASSUME NEW i \in 1..Len(t)
               PROVE /\ t[i].is = "label" => /\ t[i].label \in Label
                                             /\ i + 1 <= Len(t) /\ IsName(t[i + 1])
                     /\ t[i].is = "pointer" => t[i].target \in 1..2
    BY DEF GoesOn
  <1>4. CASE i \in 1..l
    <2>1. /\ s[i].is = "label" => s[i].label \in Label /\ i + 1 <= l /\ IsName(s[i + 1])
          /\ s[i].is = "pointer" => s[i].target \in 1..2
      BY <1>1, <1>3, <1>4 DEF GoesOn
    <2>2. i + 1 <= l => t[i + 1] = s[i + 1] /\ i + 1 <= Len(t)
      BY <1>2, <1>4
    <2> QED BY <1>2, <1>4, <2>1, <2>2
  <1>5. CASE i \notin 1..l
    <2>1. PICK j \in 1..m : i = l + j
      <3>1. i - l \in 1..m /\ i = l + (i - l)
        BY <1>1, <1>2, <1>5
      <3> QED BY <3>1
    <2>2. /\ r[j].is = "label" => r[j].label \in Label /\ j + 1 <= m /\ IsName(r[j + 1])
          /\ r[j].is = "pointer" => r[j].target \in 1..2
      BY <1>1, <1>3, <2>1 DEF GoesOn
    <2>3. j + 1 <= m => t[l + (j + 1)] = r[j + 1]
      BY <1>2, <2>1
    <2>4. l + (j + 1) = i + 1 /\ (j + 1 <= m => i + 1 <= Len(t)) /\ t[i] = r[j]
      BY <1>2, <2>1
    <2> QED BY <2>2, <2>3, <2>4
  <1> QED BY <1>4, <1>5

LEMMA CutIs ==
    ASSUME NEW qname, NEW n, NEW records, NEW G, NEW cut, IsCut(qname, n, records, G, cut)
    PROVE  /\ cut \in Nat \ {0} /\ Len(msg) = cut /\ cut <= Len(G[n])
           /\ \A i \in 1..cut : msg[i] = G[n][i]
  <1>1. PICK s \in Seq(Token) : s = G[n]
    BY DEF IsCut, IsGrown
  <1>2. cut \in 1..Len(s) /\ msg = SubSeq(s, 1, cut)
    BY <1>1 DEF IsCut
  <1>3. Len(msg) = cut /\ \A i \in 1..cut : msg[i] = s[i]
    BY <1>2
  <1> QED BY <1>1, <1>2, <1>3

LEMMA RepliesLegible ==
    ASSUME NEW qname, NEW n, NEW records, NEW G, NEW cut, IsCut(qname, n, records, G, cut)
    PROVE  Legible /\ \A p : IsPointer(p) => msg[p].target \in 1..2
  <1>1. n \in Nat /\ MaxRecords \in Nat /\ n <= MaxRecords
    BY DepthIsEnough DEF IsCut
  <1>2. IsGrown(G, n, Asked(qname), records) /\ IsQName(qname) /\ G[0] = Asked(qname)
    BY DEF IsCut, IsGrown
  <1> DEFINE S == {k \in Nat : k <= n => GoesOn(G[k])}
  <1>3. 0 \in S
    <2>1. GoesOn(G[0])
      BY <1>2, AskedGoesOn
    <2> QED BY <2>1
  <1>4. ASSUME NEW j \in 0..(n - 1), j \in S PROVE j + 1 \in S
    <2>1. PICK k \in 1..n : k = j + 1 /\ k - 1 = j
      <3>1. j + 1 \in 1..n /\ (j + 1) - 1 = j
        BY <1>1
      <3> QED BY <3>1
    <2>2. Grew(G[k - 1], records[k], G[k])
      BY <1>2, Grows, Zenon
    <2>3. GoesOn(G[k - 1])
      BY <1>1, <1>4, <2>1
    <2>4. GoesOn(G[k])
      BY <2>2, <2>3, GoesOnGrown, Zenon
    <2> QED BY <2>1, <2>4
  <1> HIDE DEF S
  <1>5. n \in S
    BY <1>1, <1>3, <1>4, Climb
  <1>6. PICK s : s = G[n]
    OBVIOUS
  <1>7. GoesOn(s)
    BY <1>1, <1>5, <1>6 DEF S
  <1>8. cut \in Nat \ {0} /\ Len(msg) = cut /\ cut <= Len(s) /\ \A i \in 1..cut : msg[i] = s[i]
    BY <1>6, CutIs
  <1>9. Len(s) \in Nat
    BY <1>1, <1>2, <1>6 DEF IsGrown
  <1>10. IsName(s[1]) /\ IsName(s[2])
    <2>1. Starts(G[0], s)
      <3>1. 0 \in 0..n /\ n \in 0..n
        BY <1>1
      <3> QED BY <1>2, <1>6, <3>1, GrownStarts
    <2>2. 1 \in 1..Len(G[0]) /\ 2 \in 1..Len(G[0])
      BY <1>2, AskedIs
    <2> QED BY <1>2, <2>1, <2>2, AskedGoesOn DEF Starts
  <1>11. ASSUME NEW i \in 1..Len(msg), msg[i].is = "label"
         PROVE  msg[i].label \in Label /\ OnWay(i + 1)
    <2>1. s[i].label \in Label /\ IsName(s[i + 1]) /\ i + 1 \in Offsets /\ msg[i] = s[i]
      BY <1>7, <1>8, <1>9, <1>11 DEF GoesOn, Offsets
    <2>2. Within(i + 1) => msg[i + 1] = s[i + 1]
      BY <1>8 DEF Within
    <2> QED BY <2>1, <2>2 DEF OnWay
  <1>12. ASSUME NEW i \in 1..Len(msg), msg[i].is = "pointer" PROVE OnWay(msg[i].target)
    <2>1. PICK t \in 1..2 : msg[i].target = t
      BY <1>7, <1>8, <1>9, <1>12 DEF GoesOn
    <2>2. Within(t) => msg[t] = s[t]
      BY <1>8 DEF Within
    <2>3. t \in Offsets /\ IsName(s[t])
      BY <1>10 DEF Offsets
    <2> QED BY <2>1, <2>2, <2>3 DEF OnWay
  <1>13. ASSUME NEW p, IsPointer(p) PROVE msg[p].target \in 1..2
    BY <1>7, <1>8, <1>9, <1>13 DEF GoesOn, IsPointer, Within
  <1> QED BY <1>8, <1>11, <1>12, <1>13 DEF Legible

\* The question, as far as the message goes.
LEMMA QuestionIs ==
    ASSUME NEW qname, NEW n, NEW records, NEW G, NEW cut,
           IsCut(qname, n, records, G, cut)
    PROVE  /\ \A i \in 1..(Len(qname) + 2) : i <= cut => msg[i] = Asked(qname)[i]
           /\ qname \in Seq(Label) /\ Len(qname) \in 1..2 /\ Len(msg) = cut /\ cut \in Nat
  <1>1. /\ cut \in Nat \ {0} /\ Len(msg) = cut /\ cut <= Len(G[n])
        /\ \A i \in 1..cut : msg[i] = G[n][i]
    BY CutIs
  <1>2. IsGrown(G, n, Asked(qname), records) /\ n \in Nat /\ IsQName(qname)
    BY DEF IsCut, IsGrown
  <1>3. PICK s, l : s = Asked(qname) /\ l = Len(qname)
    OBVIOUS
  <1>4. qname \in Seq(Label) /\ l \in 1..2 /\ Len(s) = l + 2
    BY <1>2, <1>3, AskedIs
  <1>5. Starts(s, G[n])
    <2>1. 0 \in 0..n /\ n \in 0..n /\ G[0] = s
      BY <1>2, <1>3 DEF IsGrown
    <2> QED BY <1>2, <2>1, GrownStarts
  <1>6. ASSUME NEW i \in 1..(l + 2), i <= cut PROVE msg[i] = s[i]
    BY <1>1, <1>4, <1>5, <1>6 DEF Starts
  <1> QED BY <1>1, <1>3, <1>4, <1>6

\* In a reply, the way is in the question after one pointer, and meets no other.
LEMMA RepliesShallow ==
    ASSUME Legible, NEW qname, NEW n, NEW records, NEW G, NEW cut,
           IsCut(qname, n, records, G, cut), \A p : IsPointer(p) => msg[p].target \in 1..2
    PROVE  Shallow
  <1>1. PICK l \in 1..2 : l = Len(qname)
    BY QuestionIs
  <1>2. Len(msg) = cut /\ cut \in Nat
    BY QuestionIs
  <1>3. /\ \A i \in 1..l : Asked(qname)[i] = LabelToken(qname[i])
        /\ Asked(qname)[l + 1] = End
    BY <1>1, AskedIs DEF IsCut
  <1>4. ASSUME NEW p \in 1..(l + 1), Within(p) PROVE p = l + 1 \/ IsLabel(p)
    <2>1. p \in 1..(l + 2) /\ p <= cut
      BY <1>2, <1>4 DEF Within
    <2>2. msg[p] = Asked(qname)[p]
      BY <1>1, <2>1, QuestionIs
    <2>3. CASE p # l + 1
      <3>1. p \in 1..l
        BY <2>3
      <3> QED BY <1>3, <1>4, <2>2, <3>1, TokensAre DEF IsLabel
    <2> QED BY <2>3
  <1>5. ASSUME Within(l + 1) PROVE msg[l + 1].is = "end"
    <2>1. l + 1 \in 1..(l + 2) /\ l + 1 <= cut
      BY <1>2, <1>5 DEF Within
    <2>2. msg[l + 1] = Asked(qname)[l + 1]
      BY <1>1, <2>1, QuestionIs
    <2> QED BY <1>3, <2>2, TokensAre
  <1>6. ASSUME NEW p \in 0..(l + 1) PROVE After(p) \in 0..(l + 1) /\ ~IsPointer(p)
    <2>1. CASE IsLabel(p)
      <3>1. p # l + 1
        BY <1>5, <2>1 DEF IsLabel
      <3>2. p + 1 \in 0..(l + 1)
        BY <3>1
      <3> QED BY <2>1, <3>2, AfterLabel DEF IsLabel, IsPointer
    <2>2. CASE ~IsLabel(p)
      <3>1. ~IsPointer(p)
        <4>1. ASSUME Within(p) PROVE p \in 1..(l + 1)
          BY <4>1 DEF Within
        <4>2. ASSUME Within(p) PROVE msg[p].is = "end"
          BY <1>4, <1>5, <2>2, <4>1, <4>2
        <4> QED BY <4>2 DEF IsPointer
      <3>2. After(p) = 0
        BY <2>2, <3>1 DEF After, IsPointer
      <3> QED BY <3>1, <3>2
    <2> QED BY <2>1, <2>2
  <1>7. ASSUME NEW p, IsPointer(p) PROVE After(p) \in 0..(l + 1)
    <2>1. After(p) = msg[p].target
      BY <1>7 DEF After, IsPointer, IsLabel
    <2>2. msg[p].target \in 1..2
      BY <1>7
    <2> QED BY <2>1, <2>2
  <1> QED BY <1>6, <1>7, OnePointerIsShallow

-----------------------------------------------------------------------------
(* Replies: the A records they have.                                       *)

\* Wherever reading starts, where it stops is an offset.
LEMMA TurnOn ==
    ASSUME NEW P, IsParse(P), NEW d \in 0..MaxDepth, NEW o \in Offsets,
           Within(o), msg[o].is # "end", msg[o].is # "pointer"
    PROVE  P[<<d, o>>].off = P[<<d, o + 1>>].off
  <1>1. P[<<d, o>>] = Turn(P, d, o) /\ ~(o > Len(msg))
    BY DEF IsParse, Within
  <1>2. P[<<d, o>>] = Result(<<msg[o].label>> \o P[<<d, o + 1>>].name,
                             P[<<d, o + 1>>].off, P[<<d, o + 1>>].ok)
    BY <1>1 DEF Turn
  <1> QED BY <1>2 DEF Result

LEMMA StopsAtOffset ==
    ASSUME Legible, NEW P, IsParse(P), NEW d \in 1..MaxDepth, NEW o \in Offsets
    PROVE  P[<<d, o>>].off \in Offsets
  <1>1. PICK l \in Nat : l = Len(msg)
    BY DEF Legible
  <1> DEFINE S == {k \in Nat : \A q \in Offsets : q > l - k => P[<<d, q>>].off \in Offsets}
  <1>2. d \in 0..MaxDepth /\ d # 0
    BY DepthIsEnough
  <1>3. ASSUME NEW q \in Offsets, q > l PROVE P[<<d, q>>].off \in Offsets
    <2>1. q > Len(msg)
      BY <1>1, <1>3
    <2>2. P[<<d, q>>].off = q
      BY <1>2, <2>1, TurnPast, Zenon
    <2> QED BY <1>3, <2>2
  <1>4. 0 \in S
    BY <1>3
  <1>5. ASSUME NEW k \in 0..(l - 1), k \in S PROVE k + 1 \in S
    <2> SUFFICES ASSUME NEW q \in Offsets, q > l - (k + 1) PROVE P[<<d, q>>].off \in Offsets
      OBVIOUS
    <2>1. CASE q > l
      BY <1>3, <2>1
    <2>2. CASE ~(q > l)
      <3>1. Within(q) /\ q + 1 \in Offsets /\ q + 1 > l - k
        BY <1>1, <2>2 DEF Within, Offsets
      <3>2. P[<<d, q + 1>>].off \in Offsets
        BY <1>5, <3>1
      <3>3. CASE msg[q].is = "end"
        BY <1>2, <3>1, <3>3, TurnEnd
      <3>4. CASE msg[q].is = "pointer"
        BY <1>2, <3>1, <3>4, TurnPointer
      <3>5. CASE msg[q].is # "end" /\ msg[q].is # "pointer"
        BY <1>2, <3>1, <3>2, <3>5, TurnOn
      <3> QED BY <3>3, <3>4, <3>5
    <2> QED BY <2>1, <2>2
  <1>6. l \in S
    <2> HIDE DEF S
    <2> QED BY <1>4, <1>5, Climb
  <1>7. o > l - l
    BY DEF Offsets
  <1> QED BY <1>6, <1>7

LEMMA ParseStops ==
    ASSUME Legible, NEW o \in Offsets
    PROVE  /\ ParseName(o).off \in Offsets
           /\ OnWay(o) /\ Within(o) => ParseName(o).off = NameEnds(o)
  <1>1. PICK P : IsParse(P) /\ \A start : ParseName(start) = P[<<MaxDepth, start>>]
    BY ParseUnfolds
  <1>2. MaxDepth \in 1..MaxDepth
    BY DepthIsEnough DEF Legible
  <1>3. P[<<MaxDepth, o>>].off \in Offsets
    BY <1>1, <1>2, StopsAtOffset
  <1>4. ASSUME OnWay(o), Within(o) PROVE P[<<MaxDepth, o>>].off = NameEnds(o)
    <2>1. o \in 1..(Len(msg) + 1)
      BY <1>4 DEF Within, Legible
    <2> QED BY <1>1, <1>2, <1>4, <2>1, ReadsToEnd
  <1> QED BY <1>1, <1>3, <1>4

\* What the record at an offset gives, and the records from an offset on.
OneAnswer(at) == IF msg[at].a /\ ParseName(1).name # <<>>
                 THEN {<<msg[at].address, ParseName(1).name>>} ELSE {}
NoRecord(i, off) == i = 0 \/ off > Len(msg) \/ ParseName(off).off > Len(msg)

IsAnswers(A) ==
    \A i \in 0..count, off \in Offsets :
        /\ NoRecord(i, off) => A[i][off] = {}
        /\ ~NoRecord(i, off) =>
               A[i][off] = A[i - 1][ParseName(off).off + 1] \cup OneAnswer(ParseName(off).off)

LEMMA AnswersUnfold ==
    ASSUME Legible, count \in Nat
    PROVE  \E A : Answers = A[count][ParseName(1).off + 1] /\ IsAnswers(A)
  <1>1. PICK r \in Nat : r = count
    OBVIOUS
  <1> DEFINE At(off) == ParseName(off).off
             Row(i, prev) == [off \in Nat \ {0} |->
                 IF NoRecord(i, off) THEN {} ELSE prev[At(off) + 1] \cup OneAnswer(At(off))]
             E == {<<msg[p].address, ParseName(1).name>> : p \in Offsets}
             V == [Offsets -> SUBSET E]
             Eq(A) == A = [i \in 0..r |-> Row(i, A[i - 1])]
  <1>2. Answers = (CHOOSE A : Eq(A))[r][ParseName(1).off + 1]
    BY <1>1 DEF Answers, Answer, NoRecord, OneAnswer
  <1>3. \A off \in Offsets : At(off) \in Offsets /\ At(off) + 1 \in Offsets
    <2> SUFFICES ASSUME NEW off \in Offsets PROVE At(off) \in Offsets /\ At(off) + 1 \in Offsets
      OBVIOUS
    <2>1. PICK at \in Offsets : at = At(off)
      BY ParseStops
    <2>2. at + 1 \in Offsets
      BY DEF Offsets
    <2> QED BY <2>1, <2>2
  <1>4. \A off \in Offsets : OneAnswer(At(off)) \in SUBSET E
    <2> SUFFICES ASSUME NEW off \in Offsets PROVE OneAnswer(At(off)) \in SUBSET E
      OBVIOUS
    <2>1. PICK at \in Offsets : at = At(off)
      BY <1>3
    <2>2. OneAnswer(at) \subseteq {<<msg[at].address, ParseName(1).name>>}
      BY DEF OneAnswer
    <2> QED BY <2>1, <2>2
  <1> HIDE DEF E
  <1>5. \A i, prev : prev \in V => Row(i, prev) \in V
    <2> SUFFICES ASSUME NEW i, NEW prev \in V, NEW off \in Offsets
                 PROVE  (IF NoRecord(i, off) THEN {}
                         ELSE prev[At(off) + 1] \cup OneAnswer(At(off))) \in SUBSET E
      BY DEF Offsets
    <2>1. prev[At(off) + 1] \in SUBSET E
      <3> HIDE DEF At
      <3> QED BY <1>3
    <2> QED BY <1>4, <2>1
  <1> HIDE DEF Row, V
  <1>6. \A prev : Row(0, prev) \in V /\ \A other : Row(0, prev) = Row(0, other)
    BY DEF Row, V, NoRecord, Offsets
  <1>7. PICK g : g = [x \in Nat \X V |-> Row(x[1], x[2])]
    OBVIOUS
  <1>8. g \in Makers(V)
    BY <1>5, <1>7 DEF Makers
  <1>9. PICK a \in V : \A prev : Row(0, prev) = a
    BY <1>6
  <1>10. PICK f : IsRun(f, r, V, a, g)
    BY <1>8, Recursion, Zenon
  <1>11. f \in [0..r -> V] /\ f[0] = a /\ \A i \in 1..r : f[i] = g[<<i, f[i - 1]>>]
    BY <1>10 DEF IsRun
  <1>12. \A i \in 0..r : f[i] = Row(i, f[i - 1])
    <2> SUFFICES ASSUME NEW i \in 0..r PROVE f[i] = Row(i, f[i - 1])
      OBVIOUS
    <2>1. CASE i = 0
      BY <1>9, <1>11, <2>1
    <2>2. CASE i # 0
      <3>1. i \in 1..r /\ i - 1 \in 0..r /\ i \in Nat
        BY <1>1, <2>2
      <3>2. f[i] = g[<<i, f[i - 1]>>] /\ f[i - 1] \in V
        BY <1>11, <3>1
      <3> QED BY <1>7, <3>1, <3>2
    <2> QED BY <2>1, <2>2
  <1>13. Eq(f)
    BY <1>11, <1>12
  <1>14. PICK A : A = CHOOSE h : Eq(h)
    OBVIOUS
  <1>15. Eq(A)
    <2> HIDE DEF Eq
    <2> QED BY <1>13, <1>14
  <1>16. \A i \in 0..r : A[i] = Row(i, A[i - 1])
    BY <1>15
  <1>17. IsAnswers(A)
    <2> SUFFICES ASSUME NEW i \in 0..count, NEW off \in Offsets
                 PROVE  /\ NoRecord(i, off) => A[i][off] = {}
                        /\ ~NoRecord(i, off) => A[i][off] =
                               A[i - 1][ParseName(off).off + 1] \cup OneAnswer(ParseName(off).off)
      BY DEF IsAnswers
    <2>1. PICK prev : prev = A[i - 1]
      OBVIOUS
    <2>2. A[i] = Row(i, prev)
      BY <1>1, <1>16, <2>1
    <2>3. A[i][off] = IF NoRecord(i, off) THEN {} ELSE prev[At(off) + 1] \cup OneAnswer(At(off))
      BY <2>2 DEF Row, Offsets
    <2> QED BY <2>1, <2>3
  <1> QED BY <1>1, <1>2, <1>14, <1>17

\* Where reading the owner of record k stops: at its data, if the message has that.
LEMMA OwnerEnds ==
    ASSUME Legible, NEW qname, NEW n, NEW records, NEW G, NEW cut,
           IsCut(qname, n, records, G, cut), NEW k \in 1..n, Len(G[k - 1]) + 1 <= cut
    PROVE  LET at == ParseName(Len(G[k - 1]) + 1).off
           IN  /\ Len(G[k]) <= cut => at = Len(G[k]) /\ msg[at] = records[k][Len(records[k])]
               /\ Len(G[k]) > cut => at > cut
  <1>1. /\ cut \in Nat \ {0} /\ Len(msg) = cut /\ cut <= Len(G[n])
        /\ \A i \in 1..cut : msg[i] = G[n][i]
    BY CutIs
  <1>2. IsGrown(G, n, Asked(qname), records) /\ n \in Nat
    BY DEF IsCut, IsGrown
  <1>3. Grew(G[k - 1], records[k], G[k])
    BY <1>2, Grows, Zenon
  <1>4. Starts(G[k], G[n])
    <2>1. k \in 0..n /\ n \in k..n
      BY <1>2
    <2> QED BY <1>2, <2>1, GrownStarts
  <1>5. PICK p, l, r, o : p = Len(G[k - 1]) /\ l = Len(G[k]) /\ r = records[k] /\ o = p + 1
    OBVIOUS
  <1>6. /\ p \in Nat /\ l \in Nat /\ IsRecord(r) /\ l = p + Len(r)
        /\ o = p + 1 /\ o <= cut
        /\ \A i \in 1..Len(r) : G[k][p + i] = r[i]
    <2>1. PICK s, t : s = G[k - 1] /\ t = G[k]
      OBVIOUS
    <2>2. Grew(s, r, t) /\ p = Len(s) /\ l = Len(t) /\ o = p + 1
      BY <1>3, <1>5, <2>1
    <2>3. Len(s) \in Nat /\ Len(t) \in Nat
      BY <2>2 DEF Grew
    <2>4. o <= cut
      BY <1>5
    <2> QED BY <2>1, <2>2, <2>3, <2>4 DEF Grew
  <1>7. ASSUME NEW i \in 1..Len(r), p + i <= cut PROVE msg[p + i] = r[i]
    <2>1. Len(r) \in Nat
      BY <1>6 DEF IsRecord
    <2>2. p + i \in 1..l /\ p + i \in 1..cut
      BY <1>1, <1>6, <1>7, <2>1
    <2>3. G[n][p + i] = G[k][p + i]
      BY <1>4, <1>5, <2>2 DEF Starts
    <2> QED BY <1>1, <1>6, <2>2, <2>3
  <1>8. o \in 1..Len(msg) /\ o \in Offsets /\ Within(o)
    BY <1>1, <1>5, <1>6 DEF Offsets, Within
  <1>9. CASE Len(r) = 2 /\ r[1] \in {Pointer(1), Pointer(2)}
    <2>1. msg[o] = r[1] /\ r[1].is = "pointer"
      <3>1. 1 \in 1..Len(r)
        BY <1>9
      <3> QED BY <1>5, <1>6, <1>7, <1>9, <3>1, TokensAre
    <2>2. ~IsLabel(o) /\ OnWay(o)
      BY <1>8, <2>1 DEF IsLabel, OnWay, IsName
    <2>3. NameEnds(o) = o + 1
      <3>1. o \in 1..(Len(msg) + 1)
        BY <1>1, <1>8
      <3> QED BY <1>8, <2>2, <3>1, EndsHere
    <2>4. ParseName(o).off = l
      BY <1>5, <1>6, <1>8, <1>9, <2>2, <2>3, ParseStops
    <2>5. l <= cut => msg[l] = r[Len(r)]
      <3>1. 2 \in 1..Len(r) /\ l = p + 2
        BY <1>6, <1>9
      <3> QED BY <1>7, <1>9, <3>1
    <2> QED BY <1>5, <2>4, <2>5
  <1>10. CASE /\ Len(r) = 3
              /\ r[1] \in {LabelToken(x) : x \in Label} /\ r[2] \in {End, Pointer(1)}
    <2>1. 1 \in 1..Len(r) /\ 2 \in 1..Len(r) /\ 3 \in 1..Len(r) /\ l = p + 3
      BY <1>6, <1>10
    <2>2. msg[o] = r[1] /\ r[1].is = "label" /\ (r[2].is = "end" \/ r[2].is = "pointer")
      BY <1>5, <1>6, <1>7, <1>10, <2>1, TokensAre
    <2>3. IsLabel(o) /\ OnWay(o)
      BY <1>8, <2>2 DEF IsLabel, OnWay, IsName
    <2>4. ParseName(o).off = NameEnds(o + 1)
      <3>1. ParseName(o).off = NameEnds(o)
        BY <1>8, <2>3, ParseStops
      <3> QED BY <1>8, <2>3, <3>1, EndsLater
    <2>5. o + 1 \in 1..(Len(msg) + 1)
      BY <1>1, <1>8
    <2>6. CASE o + 1 <= cut
      <3>1. Within(o + 1) /\ msg[o + 1] = r[2]
        <4>1. o + 1 = p + 2
          BY <1>5, <1>6
        <4> QED BY <1>1, <1>7, <2>1, <2>5, <2>6, <4>1 DEF Within
      <3>2. ~IsLabel(o + 1)
        BY <2>2, <3>1 DEF IsLabel
      <3>3. NameEnds(o + 1) = (o + 1) + 1
        BY <2>5, <3>1, <3>2, EndsHere
      <3>4. ParseName(o).off = l
        <4>1. (o + 1) + 1 = l
          BY <1>6, <2>1
        <4> QED BY <2>4, <3>3, <4>1
      <3>5. l <= cut => msg[l] = r[Len(r)]
        BY <1>7, <1>10, <2>1
      <3> QED BY <1>5, <3>4, <3>5
    <2>7. CASE ~(o + 1 <= cut)
      <3>1. ~Within(o + 1)
        BY <1>1, <1>8, <2>7 DEF Within
      <3>2. ~IsLabel(o + 1)
        BY <3>1 DEF IsLabel
      <3>3. NameEnds(o + 1) = o + 1
        BY <2>5, <3>1, <3>2, EndsHere
      <3>4. o + 1 > cut /\ l > cut
        BY <1>1, <1>6, <2>1, <2>7
      <3>5. ParseName(o).off > cut
        BY <2>4, <3>3, <3>4
      <3>6. ~(l <= cut)
        BY <1>1, <1>6, <3>4
      <3> QED BY <1>5, <3>5, <3>6, Zenon
    <2> QED BY <2>6, <2>7
  <1> QED BY <1>6, <1>9, <1>10 DEF IsRecord

\* Where reading the question stops: at its fixed part, if the message has that.
LEMMA QuestionEnds ==
    ASSUME Legible, NEW qname, NEW n, NEW records, NEW G, NEW cut,
           IsCut(qname, n, records, G, cut)
    PROVE  /\ Len(qname) + 2 <= cut => /\ ParseName(1).off = Len(qname) + 2
                                       /\ ParseName(1).name = qname
           /\ Len(qname) + 2 > cut => ParseName(1).off >= cut
  <1>1. /\ cut \in Nat \ {0} /\ Len(msg) = cut /\ cut <= Len(G[n])
        /\ \A i \in 1..cut : msg[i] = G[n][i]
    BY CutIs
  <1>2. IsGrown(G, n, Asked(qname), records) /\ n \in Nat /\ IsQName(qname)
    BY DEF IsCut, IsGrown
  <1>3. PICK s, l : s = Asked(qname) /\ l = Len(qname)
    OBVIOUS
  <1>4. /\ qname \in Seq(Label) /\ l \in 1..2 /\ Len(s) = l + 2
        /\ \A i \in 1..l : s[i] = LabelToken(qname[i])
        /\ s[l + 1] = End
    BY <1>2, <1>3, AskedIs
  <1>5. Starts(s, G[n])
    <2>1. 0 \in 0..n /\ n \in 0..n /\ G[0] = s
      BY <1>2, <1>3 DEF IsGrown
    <2> QED BY <1>2, <2>1, GrownStarts
  <1>6. ASSUME NEW i \in 1..(l + 2), i <= cut PROVE msg[i] = s[i]
    BY <1>1, <1>4, <1>5, <1>6 DEF Starts
  <1>7. ASSUME NEW i \in 1..l, i <= cut
        PROVE  IsLabel(i) /\ OnWay(i) /\ i \in 1..Len(msg) /\ msg[i].label = qname[i]
    <2>1. i \in 1..(l + 2) /\ i \in 1..Len(msg) /\ i \in Offsets
      BY <1>1, <1>4, <1>7 DEF Offsets
    <2>2. msg[i].is = "label" /\ msg[i].label = qname[i]
      BY <1>4, <1>6, <1>7, <2>1, TokensAre
    <2> QED BY <2>1, <2>2 DEF IsLabel, OnWay, IsName, Within
  <1>8. l + 1 <= cut => Within(l + 1) /\ ~IsLabel(l + 1) /\ msg[l + 1].is = "end"
    <2> SUFFICES ASSUME l + 1 <= cut
                 PROVE  Within(l + 1) /\ ~IsLabel(l + 1) /\ msg[l + 1].is = "end"
      OBVIOUS
    <2>1. l + 1 \in 1..(l + 2) /\ l + 1 \in 1..Len(msg)
      BY <1>1, <1>4
    <2>2. msg[l + 1].is = "end"
      BY <1>4, <1>6, <2>1, TokensAre
    <2> QED BY <2>1, <2>2 DEF Within, IsLabel
  <1>9. \A i \in 1..(l + 1) : i > cut => ~Within(i) /\ ~IsLabel(i)
    BY <1>1 DEF Within, IsLabel
  <1>10. IsLabel(1) /\ OnWay(1) /\ Within(1) /\ 1 \in Offsets
    <2>1. 1 \in 1..l /\ 1 <= cut
      BY <1>1, <1>4
    <2> QED BY <1>7, <2>1 DEF IsLabel, Offsets
  <1>11. ParseName(1).off = NameEnds(2)
    <2>1. 1 \in 1..Len(msg) /\ 1 + 1 = 2
      BY <1>1
    <2>2. NameEnds(1) = NameEnds(1 + 1)
      BY <1>10, <2>1, EndsLater
    <2> QED BY <1>10, <2>1, <2>2, ParseStops
  <1>12. PICK last \in 1..(l + 1) :
             /\ ParseName(1).off = NameEnds(last) /\ last \in 1..(Len(msg) + 1)
             /\ ~IsLabel(last) /\ (last = l + 1 \/ (last > cut /\ last <= l))
    <2>1. 2 \in 1..(Len(msg) + 1) /\ 2 \in 1..(l + 1)
      BY <1>1, <1>4
    <2>2. CASE 2 <= l /\ 2 <= cut
      <3>1. l = 2 /\ 2 \in 1..l /\ 2 + 1 = 3
        BY <1>4, <2>2
      <3>2. IsLabel(2) /\ 2 \in 1..Len(msg)
        BY <1>7, <2>2, <3>1
      <3>3. NameEnds(2) = NameEnds(3)
        BY <3>1, <3>2, EndsLater
      <3>4. 3 \in 1..(l + 1) /\ 3 \in 1..(Len(msg) + 1) /\ 3 = l + 1
        BY <1>1, <2>2, <3>1
      <3>5. ~IsLabel(3)
        BY <1>1, <1>8, <1>9, <3>4
      <3> QED BY <1>11, <3>3, <3>4, <3>5
    <2>3. CASE ~(2 <= l)
      <3>1. 2 = l + 1
        BY <1>4, <2>3
      <3>2. ~IsLabel(2)
        BY <1>1, <1>8, <1>9, <2>1, <3>1
      <3> QED BY <1>11, <2>1, <3>1, <3>2
    <2>4. CASE 2 <= l /\ ~(2 <= cut)
      <3>1. 2 > cut
        BY <1>1, <2>4
      <3> QED BY <1>9, <1>11, <2>1, <2>4, <3>1
    <2> QED BY <2>2, <2>3, <2>4
  <1>13. ParseName(1).off = IF Within(last) THEN last + 1 ELSE last
    BY <1>12, EndsHere
  <1>14. ASSUME l + 2 > cut PROVE ParseName(1).off >= cut
    <2>1. last >= cut \/ Within(last)
      BY <1>1, <1>12 DEF Within
    <2>2. last + 1 >= cut /\ (last > cut => last >= cut)
      BY <1>1, <1>4, <1>12, <1>14
    <2>3. ~Within(last) => last > cut
      BY <1>1, <1>12 DEF Within
    <2> QED BY <1>13, <2>2, <2>3
  <1>15. ASSUME l + 2 <= cut PROVE ParseName(1).off = l + 2 /\ ParseName(1).name = qname
    <2>1. last = l + 1 /\ l + 1 <= cut /\ (l + 1) + 1 = l + 2
      BY <1>1, <1>4, <1>12, <1>15
    <2>2. ParseName(1).off = l + 2
      BY <1>8, <1>13, <2>1
    <2>3. PICK P : IsParse(P) /\ \A start : ParseName(start) = P[<<MaxDepth, start>>]
      BY ParseUnfolds
    <2>4. PICK d \in 0..MaxDepth : d = MaxDepth
      BY DepthIsEnough
    <2>5. P[<<d, l + 1>>].name = <<>>
      <3>1. l + 1 \in Offsets
        BY <1>4 DEF Offsets
      <3> QED BY <1>8, <2>1, <2>3, <3>1, TurnEnd
    <2>6. ASSUME NEW i \in 1..l
          PROVE  P[<<d, i>>].name = <<qname[i]>> \o P[<<d, i + 1>>].name
      <3>1. IsLabel(i) /\ msg[i].label = qname[i] /\ i \in Offsets
        BY <1>1, <1>4, <1>7, <1>15 DEF Offsets
      <3> QED BY <2>3, <3>1, TurnLabel
    <2>7. PICK a \in Label, b \in Label : qname = <<a>> \/ qname = <<a, b>>
      BY <1>2 DEF IsQName
    <2>8. CASE qname = <<a>>
      <3>1. l = 1 /\ qname[1] = a
        BY <1>3, <2>8
      <3>2. P[<<d, 1>>].name = <<a>> \o <<>>
        BY <2>5, <2>6, <3>1
      <3>3. <<a>> \o <<>> = <<a>>
        <4>1. <<a>> \in Seq(Label)
          OBVIOUS
        <4> QED BY <4>1, ConcatEmptySeq
      <3> QED BY <2>2, <2>3, <2>4, <2>8, <3>2, <3>3
    <2>9. CASE qname = <<a, b>>
      <3>1. l = 2 /\ qname[1] = a /\ qname[2] = b
        BY <1>3, <2>9
      <3>2. 1 \in 1..l /\ 2 \in 1..l /\ 1 + 1 = 2 /\ 2 + 1 = l + 1
        BY <3>1
      <3>3. P[<<d, 2>>].name = <<b>> \o <<>>
        BY <2>5, <2>6, <3>1, <3>2
      <3>4. P[<<d, 1>>].name = <<a>> \o (<<b>> \o <<>>)
        BY <2>6, <3>1, <3>2, <3>3
      <3>5. <<a>> \o (<<b>> \o <<>>) = <<a, b>>
        <4>1. <<a>> \in Seq(Label) /\ <<b>> \in Seq(Label)
          OBVIOUS
        <4>2. <<b>> \o <<>> = <<b>>
          BY <4>1, ConcatEmptySeq
        <4>3. Append(<<a>>, b) = <<a>> \o <<b>>
          BY <4>1, AppendIsConcat
        <4>4. Append(<<a>>, b) = <<a, b>>
          <5>1. PICK u, v : u = Append(<<a>>, b) /\ v = <<a, b>>
            OBVIOUS
          <5>2. u \in Seq(Label) /\ Len(u) = 2 /\ u[1] = a /\ u[2] = b
            BY <5>1
          <5>3. v \in Seq(Label) /\ Len(v) = 2 /\ v[1] = a /\ v[2] = b
            BY <5>1
          <5>4. \A i \in 1..2 : i = 1 \/ i = 2
            OBVIOUS
          <5>5. u = v
            BY <5>2, <5>3, <5>4, SeqEqual
          <5> QED BY <5>1, <5>5
        <4> QED BY <4>2, <4>3, <4>4
      <3> QED BY <2>2, <2>3, <2>4, <2>9, <3>4, <3>5
    <2> QED BY <2>7, <2>8, <2>9
  <1> QED BY <1>3, <1>14, <1>15

\* How many of the records are answers.
Upto(n) == IF count < n THEN count ELSE n

\* What the A records among the answers after record k say, their data cut or not.
Left(qname, n, records, G, cut, k) ==
    {<<Last(records[j]).address, qname>> :
        j \in {j \in (k + 1)..Upto(n) : Last(records[j]).a /\ Len(G[j]) <= cut}}

LEMMA UptoIs ==
    ASSUME NEW qname, NEW n, NEW records, NEW G, NEW cut, IsCut(qname, n, records, G, cut)
    PROVE  /\ Upto(n) \in Nat /\ Upto(n) <= n /\ Upto(n) <= count /\ n \in Nat /\ count \in Nat
           /\ Upto(n) = n \/ Upto(n) = count
  BY DEF Upto, IsCut, IsGrown

LEMMA NothingLeft ==
    ASSUME NEW qname, NEW n, NEW records, NEW G, NEW cut, IsCut(qname, n, records, G, cut),
           NEW k \in 0..Upto(n), k < Upto(n) => Len(G[k + 1]) > cut
    PROVE  Left(qname, n, records, G, cut, k) = {}
  <1>1. /\ IsGrown(G, n, Asked(qname), records) /\ n \in Nat /\ cut \in Nat
        /\ Upto(n) \in Nat /\ Upto(n) <= n
    <2>1. IsGrown(G, n, Asked(qname), records)
      BY DEF IsCut
    <2>2. cut \in Nat
      BY CutIs
    <2>3. Upto(n) \in Nat /\ Upto(n) <= n /\ n \in Nat
      BY UptoIs, Zenon
    <2> QED BY <2>1, <2>2, <2>3
  <1>2. ASSUME NEW j \in (k + 1)..Upto(n) PROVE ~(Len(G[j]) <= cut)
    <2>1. k + 1 \in 0..n /\ j \in 0..n /\ j \in (k + 1)..n /\ k < Upto(n)
      BY <1>1
    <2>2. Starts(G[k + 1], G[j])
      BY <1>1, <2>1, GrownStarts
    <2>3. PICK a \in Nat, b \in Nat : a = Len(G[k + 1]) /\ b = Len(G[j])
      BY <1>1, <2>1 DEF IsGrown
    <2>4. a <= b /\ a > cut
      BY <2>1, <2>2, <2>3 DEF Starts
    <2> QED BY <1>1, <2>3, <2>4
  <1> QED BY <1>2 DEF Left

LEMMA OneLess ==
    ASSUME NEW qname, NEW n, NEW records, NEW G, NEW cut, IsCut(qname, n, records, G, cut),
           NEW k \in 1..Upto(n), Len(G[k]) <= cut
    PROVE  Left(qname, n, records, G, cut, k - 1) =
               Left(qname, n, records, G, cut, k)
               \cup (IF Last(records[k]).a THEN {<<Last(records[k]).address, qname>>} ELSE {})
  <1>1. Upto(n) \in Nat
    BY UptoIs
  <1>2. PICK J, K : /\ J = {j \in ((k - 1) + 1)..Upto(n) : Last(records[j]).a /\ Len(G[j]) <= cut}
                    /\ K = {j \in (k + 1)..Upto(n) : Last(records[j]).a /\ Len(G[j]) <= cut}
    OBVIOUS
  <1>3. ((k - 1) + 1)..Upto(n) = {k} \cup ((k + 1)..Upto(n))
    BY <1>1
  <1>4. J = K \cup (IF Last(records[k]).a THEN {k} ELSE {})
    BY <1>2, <1>3
  <1>5. PICK f : f = [j \in 1..Upto(n) |-> <<Last(records[j]).address, qname>>]
    OBVIOUS
  <1>6. Left(qname, n, records, G, cut, k - 1) = {<<Last(records[j]).address, qname>> : j \in J}
    BY <1>2 DEF Left
  <1>7. Left(qname, n, records, G, cut, k) = {<<Last(records[j]).address, qname>> : j \in K}
    BY <1>2 DEF Left
  <1> QED BY <1>4, <1>6, <1>7

LEMMA AnswersLeft ==
    ASSUME Legible, NEW qname, NEW n, NEW records, NEW G, NEW cut,
           IsCut(qname, n, records, G, cut), NEW A, IsAnswers(A),
           Len(qname) + 2 <= cut
    PROVE  A[count][Len(G[0]) + 1] = Left(qname, n, records, G, cut, 0)
  <1> PICK t : t = Upto(n)
    OBVIOUS
  <1>1. /\ IsGrown(G, n, Asked(qname), records) /\ n \in Nat /\ t \in Nat /\ t <= n
        /\ count \in Nat /\ t <= count /\ (t = n \/ t = count)
        /\ cut \in Nat /\ Len(msg) = cut /\ cut <= Len(G[n])
    <2>1. IsGrown(G, n, Asked(qname), records)
      BY DEF IsCut
    <2>2. cut \in Nat /\ Len(msg) = cut /\ cut <= Len(G[n])
      BY CutIs
    <2>3. /\ Upto(n) \in Nat /\ Upto(n) <= n /\ Upto(n) <= count /\ n \in Nat /\ count \in Nat
          /\ Upto(n) = n \/ Upto(n) = count
      BY UptoIs, Zenon
    <2> QED BY <2>1, <2>2, <2>3
  <1>2. \A k \in 0..n : G[k] \in Seq(Token) /\ Len(G[k]) \in Nat /\ Len(G[k]) + 1 \in Offsets
    <2> SUFFICES ASSUME NEW k \in 0..n
                 PROVE G[k] \in Seq(Token) /\ Len(G[k]) \in Nat /\ Len(G[k]) + 1 \in Offsets
      OBVIOUS
    <2>1. PICK s \in Seq(Token) : s = G[k]
      BY <1>1 DEF IsGrown
    <2>2. Len(s) \in Nat
      OBVIOUS
    <2>3. Len(s) + 1 \in Offsets
      BY <2>2 DEF Offsets
    <2> QED BY <2>1, <2>2, <2>3
  <1> DEFINE Right(k) ==
                 A[count - k][Len(G[k]) + 1] = Left(qname, n, records, G, cut, k)
             S == {i \in Nat : i <= t => Right(t - i)}
  <1> HIDE DEF Right
  <1>3. 0 \in S
    <2>1. PICK o \in Offsets : o = Len(G[t]) + 1
      BY <1>1, <1>2
    <2>2. count - t \in 0..count /\ (o > Len(msg) \/ count - t = 0)
      <3>1. CASE t = n
        BY <1>1, <1>2, <2>1, <3>1
      <3>2. CASE t = count
        BY <1>1, <3>2
      <3> QED BY <1>1, <3>1, <3>2
    <2>3. A[count - t][o] = {}
      BY <2>2 DEF IsAnswers, NoRecord
    <2>4. Left(qname, n, records, G, cut, t) = {}
      <3>1. t \in 0..Upto(n) /\ ~(t < Upto(n))
        BY <1>1
      <3> QED BY <3>1, NothingLeft
    <2>5. Right(t)
      BY <2>1, <2>3, <2>4 DEF Right
    <2>6. t - 0 = t
      BY <1>1
    <2> QED BY <2>5, <2>6
  <1>4. ASSUME NEW i \in 0..(t - 1), i \in S PROVE i + 1 \in S
    <2>1. PICK k \in 1..t : k = t - i /\ t - (i + 1) = k - 1
      <3>1. t - i \in 1..t /\ t - (i + 1) = (t - i) - 1
        BY <1>1
      <3> QED BY <3>1
    <2>2. Right(k)
      BY <1>1, <1>4, <2>1
    <2>3. PICK l, p, o : l = Len(G[k]) /\ p = Len(G[k - 1]) /\ o = p + 1
      OBVIOUS
    <2>4. /\ k \in 1..n /\ k \in 0..n /\ k - 1 \in 0..n /\ (k - 1) + 1 = k
          /\ k \in 1..Upto(n) /\ k - 1 \in 0..Upto(n)
      BY <1>1
    <2>5. l \in Nat /\ p \in Nat /\ o \in Offsets /\ o = p + 1 /\ l > p
      <3>1. Grew(G[k - 1], records[k], G[k])
        BY <1>1, <2>4, Grows, Zenon
      <3>2. l \in Nat /\ p \in Nat /\ o \in Offsets /\ o = p + 1
        BY <1>2, <2>3, <2>4
      <3>3. PICK x \in 2..3 : l = p + x
        <4>1. Len(records[k]) \in 2..3
          BY <3>1 DEF Grew, IsRecord
        <4>2. l = p + Len(records[k])
          BY <2>3, <3>1 DEF Grew
        <4> QED BY <4>1, <4>2
      <3> QED BY <3>2, <3>3
    <2>6. PICK c \in 1..count : c = count - (k - 1) /\ c - 1 = count - k
      <3>1. count - (k - 1) \in 1..count /\ (count - (k - 1)) - 1 = count - k
        BY <1>1
      <3> QED BY <3>1
    <2>7. c \in 0..count /\ c # 0
      BY <1>1
    <2>8. PICK at : at = ParseName(o).off
      OBVIOUS
    <2>9. at \in Offsets
      BY <2>5, <2>8, ParseStops
    <2>10. CASE l > cut
      <3>1. NoRecord(c, o)
        <4>1. CASE o > cut
          BY <1>1, <4>1 DEF NoRecord
        <4>2. CASE ~(o > cut)
          <5>1. Len(G[k - 1]) + 1 <= cut
            <6>1. o <= cut
              BY <1>1, <2>5, <4>2
            <6> QED BY <2>3, <6>1
          <5>2. at > cut
            BY <2>3, <2>4, <2>8, <2>10, <5>1, OwnerEnds
          <5> QED BY <1>1, <2>8, <5>2 DEF NoRecord
        <4> QED BY <4>1, <4>2
      <3>2. A[c][o] = {}
        BY <2>5, <2>7, <3>1 DEF IsAnswers
      <3>3. Left(qname, n, records, G, cut, k - 1) = {}
        <4>1. Len(G[(k - 1) + 1]) > cut
          BY <2>3, <2>4, <2>10
        <4> QED BY <2>4, <4>1, NothingLeft
      <3>4. Right(k - 1)
        BY <2>3, <2>6, <3>2, <3>3 DEF Right
      <3> QED BY <2>1, <3>4
    <2>11. CASE ~(l > cut)
      <3>1. l <= cut /\ o <= cut
        BY <1>1, <2>5, <2>11
      <3>2. at = l /\ msg[at] = records[k][Len(records[k])]
        <4>1. Len(G[k - 1]) + 1 <= cut /\ Len(G[k]) <= cut
          BY <2>3, <3>1
        <4>2. at = Len(G[k]) /\ msg[at] = records[k][Len(records[k])]
          BY <2>3, <2>4, <2>8, <4>1, OwnerEnds
        <4> QED BY <2>3, <4>2
      <3>3. ~NoRecord(c, o)
        BY <1>1, <2>5, <2>7, <2>8, <3>1, <3>2 DEF NoRecord
      <3>4. A[c][o] = A[c - 1][at + 1] \cup OneAnswer(at)
        BY <2>5, <2>7, <2>8, <3>3 DEF IsAnswers
      <3>5. A[c - 1][at + 1] = Left(qname, n, records, G, cut, k)
        BY <2>2, <2>3, <2>6, <3>2 DEF Right
      <3>6. OneAnswer(at) = IF Last(records[k]).a
                            THEN {<<Last(records[k]).address, qname>>} ELSE {}
        <4>1. msg[at] = Last(records[k])
          BY <3>2 DEF Last
        <4>2. ParseName(1).name = qname
          BY QuestionEnds
        <4>3. qname # <<>>
          <5>1. Len(qname) \in 1..2
            BY QuestionIs
          <5> QED BY <5>1
        <4>4. msg[at].a \in BOOLEAN
          <5>1. IsRecord(records[k])
            BY <1>1, <2>4, RecordsAreRecords DEF IsGrown
          <5> QED BY <3>2, <5>1, TokensAre DEF IsRecord
        <4> QED BY <4>1, <4>2, <4>3, <4>4 DEF OneAnswer
      <3>7. Left(qname, n, records, G, cut, k - 1)
                = Left(qname, n, records, G, cut, k) \cup OneAnswer(at)
        BY <2>3, <2>4, <3>1, <3>6, OneLess
      <3>8. Right(k - 1)
        BY <2>3, <2>6, <3>4, <3>5, <3>7 DEF Right
      <3> QED BY <2>1, <3>8
    <2> QED BY <2>10, <2>11
  <1> HIDE DEF S
  <1>5. t \in S
    BY <1>1, <1>3, <1>4, Climb
  <1>6. t - t = 0 /\ count - 0 = count /\ t <= t
    BY <1>1
  <1>7. Right(0)
    BY <1>5, <1>6 DEF S
  <1> QED BY <1>6, <1>7 DEF Right

LEMMA AnswersAreLeft ==
    ASSUME Legible, NEW qname, NEW n, NEW records, NEW G, NEW cut,
           IsCut(qname, n, records, G, cut)
    PROVE  Answers = Left(qname, n, records, G, cut, 0)
  <1>1. PICK A : Answers = A[count][ParseName(1).off + 1] /\ IsAnswers(A)
    BY AnswersUnfold, UptoIs
  <1>2. /\ IsGrown(G, n, Asked(qname), records) /\ n \in Nat
        /\ count \in Nat /\ cut \in Nat /\ Len(msg) = cut
    BY CutIs, UptoIs, SMTT(30) DEF IsCut, IsGrown
  <1>3. PICK l \in Nat : l = Len(qname) /\ Len(G[0]) = l + 2
    BY <1>2, AskedIs DEF IsCut, IsGrown
  <1>4. CASE l + 2 <= cut
    <2>1. ParseName(1).off = Len(G[0])
      BY <1>3, <1>4, QuestionEnds
    <2>2. A[count][Len(G[0]) + 1] = Left(qname, n, records, G, cut, 0)
      BY <1>1, <1>3, <1>4, AnswersLeft
    <2> QED BY <1>1, <2>1, <2>2
  <1>5. CASE ~(l + 2 <= cut)
    <2>1. PICK off \in Offsets : off = ParseName(1).off
      <3>1. 1 \in Offsets
        BY DEF Offsets
      <3> QED BY <3>1, ParseStops
    <2>2. off >= cut
      <3>1. l + 2 > cut
        BY <1>2, <1>5
      <3> QED BY <1>3, <2>1, <3>1, QuestionEnds
    <2>3. off + 1 \in Offsets /\ off + 1 > Len(msg) /\ count \in 0..count
      BY <1>2, <2>2 DEF Offsets
    <2>4. A[count][off + 1] = {}
      BY <1>1, <2>3 DEF IsAnswers, NoRecord
    <2>5. 0 \in 0..Upto(n) /\ (0 < Upto(n) => Len(G[0 + 1]) > cut)
      <3>1. ASSUME 0 < Upto(n) PROVE Len(G[0 + 1]) > cut
        <4>1. 1 \in 1..n /\ 0 + 1 = 1 /\ 1 - 1 = 0
          BY <1>2, <3>1, UptoIs
        <4>2. Grew(G[1 - 1], records[1], G[1])
          BY <1>2, <4>1, Grows, Zenon
        <4>3. PICK s, r, t : s = G[0] /\ r = records[1] /\ t = G[1]
          OBVIOUS
        <4>4. Grew(s, r, t)
          BY <4>1, <4>2, <4>3
        <4>5. PICK a, b, c : a = Len(s) /\ b = Len(r) /\ c = Len(t)
          OBVIOUS
        <4>6. a \in Nat /\ b \in 2..3 /\ c = a + b
          BY <4>4, <4>5 DEF Grew, IsRecord
        <4>7. a = l + 2
          BY <1>3, <4>3, <4>5
        <4>8. c > cut
          BY <1>2, <1>5, <4>6, <4>7
        <4> QED BY <4>1, <4>3, <4>5, <4>8
      <3> QED BY <3>1, UptoIs
    <2>6. Left(qname, n, records, G, cut, 0) = {}
      BY <2>5, NothingLeft
    <2> QED BY <1>1, <2>1, <2>4, <2>6
  <1> QED BY <1>4, <1>5

LEMMA CutIsRead ==
    ASSUME Legible, NEW qname, NEW n, NEW records, NEW G, NEW cut,
           IsCut(qname, n, records, G, cut)
    PROVE  ARecords = given
  <1>1. PICK answers : answers = {k \in 1..n : k <= count /\ Len(G[k]) <= cut}
    OBVIOUS
  <1>2. PICK asked : asked = {k \in answers : Last(records[k]).a}
    OBVIOUS
  <1>3. Answers = {<<Last(records[k]).address, qname>> : k \in asked}
    <2>1. asked = {j \in (0 + 1)..Upto(n) : Last(records[j]).a /\ Len(G[j]) <= cut}
      <3>1. \A j : j \in (0 + 1)..Upto(n) <=> j \in 1..n /\ j <= count
        BY UptoIs DEF Upto
      <3> QED BY <1>1, <1>2, <3>1
    <2> QED BY <2>1, AnswersAreLeft DEF Left
  <1>4. given = IF \E k \in asked : Last(records[k]).address = Short THEN Failure
                ELSE Found({<<Last(records[k]).address, qname>> : k \in asked})
    BY <1>1, <1>2 DEF IsCut, Meant
  <1>5. (\E pair \in Answers : pair[1] = Short)
            <=> \E k \in asked : Last(records[k]).address = Short
    <2>1. PICK f : f = [k \in asked |-> <<Last(records[k]).address, qname>>]
      OBVIOUS
    <2>2. \A k \in asked : f[k][1] = Last(records[k]).address
      BY <2>1
    <2>3. Answers = {f[k] : k \in asked}
      BY <1>3, <2>1
    <2> QED BY <2>2, <2>3, Zenon
  <1> QED BY <1>3, <1>4, <1>5 DEF ARecords

-----------------------------------------------------------------------------
(* The messages that arrive, and the two theorems.                         *)

\* The message is a reply as ReplyArrives makes it.
Replied ==
    \E name \in Label \X Label, short \in BOOLEAN, n \in 0..MaxRecords :
    \E records \in [1..n -> Records] :
        LET qname == IF short THEN <<name[1]>> ELSE name
            reply == Grown(Written(qname) \o <<Question>>, records)
        IN  \E cut \in 1..Len(reply[n]) :
            LET answers == {k \in 1..n : k <= count /\ Len(reply[k]) <= cut}
            IN  /\ \A k \in 1..n : Last(records[k]).address = Short => Len(reply[k]) = cut
                /\ msg = SubSeq(reply[n], 1, cut)
                /\ given = Meant(qname, records, answers)

\* The message is empty, a name with pointers anywhere, or a reply cut off.
Arrived ==
    \/ msg = <<>> /\ isReply = FALSE
    \/ isReply = FALSE /\ \E n \in 1..MaxTokens : msg \in [1..n -> NameTokens]
    \/ isReply = TRUE /\ count \in 0..MaxRecords /\ Replied

LEMMA NamesLegible ==
    ASSUME NEW n \in 1..MaxTokens, msg \in [1..n -> NameTokens]
    PROVE  Legible /\ Len(msg) < MaxDepth
  <1>1. Len(msg) = n /\ n \in Nat /\ Len(msg) < MaxDepth
    BY DepthIsEnough
  <1>2. \A t \in NameTokens :
            /\ IsName(t) /\ t.is = "label" => t.label \in Label
            /\ t.is = "pointer" => t.target \in 1..(MaxTokens + 1)
    <2> SUFFICES ASSUME NEW t \in NameTokens
                 PROVE  /\ IsName(t) /\ t.is = "label" => t.label \in Label
                        /\ t.is = "pointer" => t.target \in 1..(MaxTokens + 1)
      OBVIOUS
    <2> QED BY TokensAre DEF NameTokens, IsName
  <1>3. \A t \in NameTokens : IsName(t)
    BY TokensAre DEF NameTokens, IsName
  <1>4. \A o \in Offsets : OnWay(o)
    <2> SUFFICES ASSUME NEW o \in Offsets, Within(o) PROVE IsName(msg[o])
      BY DEF OnWay
    <2>1. msg[o] \in NameTokens
      BY <1>1 DEF Within
    <2> QED BY <1>3, <2>1
  <1>5. \A i \in 1..Len(msg) : i + 1 \in Offsets /\ msg[i] \in NameTokens
    BY <1>1 DEF Offsets
  <1>6. \A i \in 1..(MaxTokens + 1) : i \in Offsets
    BY DepthIsEnough DEF Offsets
  <1> QED BY <1>1, <1>2, <1>3, <1>4, <1>5, <1>6 DEF Legible

LEMMA RepliesAreCut ==
    ASSUME NEW name \in Label \X Label, NEW short \in BOOLEAN, NEW n \in 0..MaxRecords,
           NEW records \in [1..n -> Records], NEW qname, NEW G, NEW cut,
           qname = IF short THEN <<name[1]>> ELSE name,
           G = Grown(Written(qname) \o <<Question>>, records),
           cut \in 1..Len(G[n]), msg = SubSeq(G[n], 1, cut), count \in 0..MaxRecords,
           given = Meant(qname, records, {k \in 1..n : k <= count /\ Len(G[k]) <= cut})
    PROVE  IsCut(qname, n, records, G, cut)
  <1>1. IsQName(qname)
    <2>1. PICK a \in Label, b \in Label : name = <<a, b>>
      OBVIOUS
    <2>2. qname = <<a>> \/ qname = <<a, b>>
      BY <2>1
    <2> QED BY <2>2 DEF IsQName
  <1>2. n \in Nat /\ Asked(qname) \in Seq(Token) /\ G = Grown(Asked(qname), records)
    <2>1. Asked(qname) \in Seq(Token)
      BY <1>1, AskedIs, Zenon
    <2> QED BY <2>1 DEF Asked
  <1>3. IsGrown(G, n, Asked(qname), records)
    BY <1>2, GrownUnfolds
  <1> QED BY <1>1, <1>3 DEF IsCut

LEMMA RepliedIsCut ==
    ASSUME Replied, count \in 0..MaxRecords
    PROVE  \E qname, n, records, G, cut : IsCut(qname, n, records, G, cut)
  <1>1. SUFFICES ASSUME NEW name \in Label \X Label, NEW short \in BOOLEAN,
                       NEW n \in 0..MaxRecords, NEW records \in [1..n -> Records],
                      LET qname == IF short THEN <<name[1]>> ELSE name
                          reply == Grown(Written(qname) \o <<Question>>, records)
                      IN  \E cut \in 1..Len(reply[n]) :
                          LET answers == {k \in 1..n : k <= count /\ Len(reply[k]) <= cut}
                          IN  /\ \A k \in 1..n : Last(records[k]).address = Short
                                                    => Len(reply[k]) = cut
                              /\ msg = SubSeq(reply[n], 1, cut)
                              /\ given = Meant(qname, records, answers)
               PROVE  \E qname, m, replies, G, cut : IsCut(qname, m, replies, G, cut)
    BY Zenon DEF Replied
  <1>2. PICK qname : qname = IF short THEN <<name[1]>> ELSE name
    OBVIOUS
  <1>3. PICK G : G = Grown(Written(qname) \o <<Question>>, records)
    OBVIOUS
  <1>4. PICK cut \in 1..Len(G[n]) :
            /\ msg = SubSeq(G[n], 1, cut)
            /\ given = Meant(qname, records, {k \in 1..n : k <= count /\ Len(G[k]) <= cut})
    BY <1>1, <1>2, <1>3, ZenonT(60)
  <1>5. IsCut(qname, n, records, G, cut)
    BY <1>2, <1>3, <1>4, RepliesAreCut, Zenon
  <1> QED BY <1>5, Zenon

LEMMA ArrivedIsRead ==
    ASSUME Arrived PROVE NamesRead /\ RecordsRead
  <1>1. CASE msg = <<>> /\ isReply = FALSE
    <2>1. Len(msg) = 0
      BY <1>1
    <2>2. Legible /\ Len(msg) < MaxDepth
      BY <2>1, DepthIsEnough DEF Legible
    <2> QED BY <1>1, <2>2, ShortIsShallow, LegibleIsRead DEF RecordsRead
  <1>2. CASE isReply = FALSE /\ \E n \in 1..MaxTokens : msg \in [1..n -> NameTokens]
    <2>1. Legible /\ Len(msg) < MaxDepth
      BY <1>2, NamesLegible
    <2> QED BY <1>2, <2>1, ShortIsShallow, LegibleIsRead DEF RecordsRead
  <1>3. CASE isReply = TRUE /\ count \in 0..MaxRecords /\ Replied
    <2>1. PICK qname, n, records, G, cut : IsCut(qname, n, records, G, cut)
      BY <1>3, RepliedIsCut, Zenon
    <2>2. Legible /\ \A p : IsPointer(p) => msg[p].target \in 1..2
      BY <2>1, RepliesLegible, Zenon
    <2>3. Shallow
      BY <2>1, <2>2, RepliesShallow, Zenon
    <2>4. ARecords = given
      BY <2>1, <2>2, CutIsRead, Zenon
    <2> QED BY <2>2, <2>3, <2>4, LegibleIsRead DEF RecordsRead
  <1> QED BY <1>1, <1>2, <1>3, Zenon DEF Arrived

LEMMA ArrivedInvariant == DnsSpec => []Arrived
  <1>1. DnsInit => Arrived
    BY DEF DnsInit, Arrived
  <1>2. Arrived /\ [DnsNext]_dnsVars => Arrived'
    <2> SUFFICES ASSUME Arrived, [DnsNext]_dnsVars PROVE Arrived'
      OBVIOUS
    <2>1. CASE NamesArrive
      <3>1. ASSUME Replied, count \in 0..MaxRecords PROVE msg # <<>>
        <4>1. PICK qname, n, records, G, cut : IsCut(qname, n, records, G, cut)
          BY <3>1, RepliedIsCut, Zenon
        <4>2. Len(msg) = cut /\ cut # 0
          BY <4>1, CutIs
        <4> QED BY <4>2
      <3>2. isReply' = FALSE
        BY <2>1, <3>1 DEF NamesArrive, Arrived
      <3> QED BY <2>1, <3>2, Zenon DEF NamesArrive, Arrived
    <2>2. CASE ReplyArrives
      BY <2>2, Zenon DEF ReplyArrives, Arrived, Replied
    <2>3. CASE UNCHANGED dnsVars
      <3>1. msg' = msg /\ isReply' = isReply /\ count' = count /\ given' = given
        BY <2>3 DEF dnsVars
      <3>2. Replied' <=> Replied
        BY <3>1 DEF Replied
      <3> QED BY <3>1, <3>2 DEF Arrived
    <2> QED BY <2>1, <2>2, <2>3 DEF DnsNext
  <1> QED BY <1>1, <1>2, PTL DEF DnsSpec

\* Whatever labels and pointers a name is made of, and in every reply, _dns_parse_name reads
\* what the encoding means, goes on where it must, and fails exactly on a loop of pointers.
THEOREM NamesAreRead == DnsSpec => []NamesRead
  <1>1. Arrived => NamesRead
    BY ArrivedIsRead
  <1> QED BY <1>1, ArrivedInvariant, PTL

\* Of every reply, however its names are compressed and wherever it is cut off,
\* _dns_extract_a_records reads exactly the A records it has whole and counts as answers,
\* under the name asked for, or nothing when it ends in the data of one.
THEOREM RecordsAreRead == DnsSpec => []RecordsRead
  <1>1. Arrived => RecordsRead
    BY ArrivedIsRead
  <1> QED BY <1>1, ArrivedInvariant, PTL
=============================================================================
