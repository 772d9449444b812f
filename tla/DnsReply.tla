----------------------------- MODULE DnsReply -----------------------------
(***************************************************************************)
(* How the gateway reads a DNS reply (_dns_parse_name and                  *)
(* _dns_extract_a_records of _tun_gateway.py), checked against what the    *)
(* encoding means.  A message is a sequence of tokens, and an offset is    *)
(* the position of a token: a label of a name, the zero byte that ends a   *)
(* name, a compression pointer, and the fixed part of a question or of a   *)
(* resource record with its data.  A name is the sequence of its labels.   *)
(***************************************************************************)
EXTENDS Integers, Sequences, SequencesExt

CONSTANTS
    Label,          \* labels of names
    MaxTokens,      \* bound on the length of the malformed messages
    MaxRecords,     \* bound on the records of the well-formed replies
    MaxDepth        \* Python's bound on the depth of the recursion

\* No message with pointers anywhere is as long as Python allows calls to nest.
ASSUME DepthIsEnough == /\ MaxTokens \in Nat /\ MaxRecords \in Nat /\ MaxDepth \in Nat
                        /\ MaxDepth > MaxTokens

VARIABLES
    msg,        \* the message at hand
    isReply,    \* whether it is a reply, perhaps cut off
    count,      \* how many of its records are answers, says its header
    given       \* what a reader should take from a reply

dnsVars == <<msg, isReply, count, given>>

\* A reading: the pairs <<address, name>> found, or a failure.
Found(pairs) == [ok |-> TRUE, pairs |-> pairs]
Failure == [ok |-> FALSE, pairs |-> {}]

DnsInit == msg = <<>> /\ isReply = FALSE /\ count = 0 /\ given = Found({})

LabelToken(l) == [is |-> "label", label |-> l]
Pointer(i) == [is |-> "pointer", target |-> i]
End == [is |-> "end"]
Question == [is |-> "question"]
Record(isA, a) == [is |-> "record", a |-> isA, address |-> a]
Short == 0      \* the data of a record that the message ends in

-----------------------------------------------------------------------------
(* The code.                                                               *)

Result(name, off, ok) == [name |-> name, off |-> off, ok |-> ok]

\* Bug for a mutant: reading goes on after the target of a pointer.
ReadOnThere(parse, d, off) ==
    IF off > Len(msg) THEN Result(<<>>, off, TRUE)
    ELSE CASE msg[off].is = "end" -> Result(<<>>, off + 1, TRUE)
           [] msg[off].is = "pointer" ->
                IF d = 0 THEN Result(<<>>, off, FALSE) ELSE parse[<<d - 1, msg[off].target>>]
           [] OTHER -> LET rest == parse[<<d, off + 1>>]
                       IN  Result(<<msg[off].label>> \o rest.name, rest.off, rest.ok)

\* One turn of the loop of _dns_parse_name, with d calls left: a pointer ends the name,
\* whose rest is read by a call of its own; ok is false when the calls nest too deep,
\* which the caller sees as an exception.  As each call has a set "visited" of its own,
\* it is always empty when it is read.
Turn(parse, d, off) ==
    IF off > Len(msg) THEN Result(<<>>, off, TRUE)
    ELSE CASE msg[off].is = "end" -> Result(<<>>, off + 1, TRUE)
           [] msg[off].is = "pointer" ->
                IF d = 0 THEN Result(<<>>, off, FALSE)
                ELSE LET rest == parse[<<d - 1, msg[off].target>>]
                     IN  Result(rest.name, off + 1, rest.ok)
           [] OTHER -> LET rest == parse[<<d, off + 1>>]
                       IN  Result(<<msg[off].label>> \o rest.name, rest.off, rest.ok)

\* _dns_parse_name
ParseName(start) ==
    LET Parse[c \in (0..MaxDepth) \X (Nat \ {0})] == Turn(Parse, c[1], c[2])
    IN  Parse[<<MaxDepth, start>>]

\* Bug for a mutant: an address goes by the owner of its record.
AnswerByOwner(off) ==
    LET owner == ParseName(off)
    IN  IF msg[owner.off].a THEN {<<msg[owner.off].address, owner.name>>} ELSE {}

\* What the record at an offset adds: if it is an A record, its address with the name of
\* the question, whatever the owner.
Answer(off) ==
    LET record == msg[ParseName(off).off]
        question == ParseName(1).name
    IN  IF record.a /\ question # <<>> THEN {<<record.address, question>>} ELSE {}

\* What the loop over the answers finds.
Answers ==
    LET A[i \in 0..count] == [off \in Nat \ {0} |->
            LET at == ParseName(off).off
            IN  IF i = 0 \/ off > Len(msg) \/ at > Len(msg) THEN {}
                ELSE A[i - 1][at + 1] \cup Answer(off)]
    IN  A[count][ParseName(1).off + 1]

\* _dns_extract_a_records, for a message with one question.  inet_ntoa raises an
\* exception on data that is not four bytes, and nothing of the reply is learned.
ARecords == IF \E pair \in Answers : pair[1] = Short THEN Failure ELSE Found(Answers)

-----------------------------------------------------------------------------
(* What the encoding means.                                                *)

Within(off) == off \in 1..Len(msg)
IsLabel(off) == Within(off) /\ msg[off].is = "label"

\* The token after this one in a name; 0 when the name is over.
After(p) == CASE IsLabel(p) -> p + 1
              [] Within(p) /\ msg[p].is = "pointer" -> msg[p].target
              [] OTHER -> 0

\* The tokens on the way from an offset, one per step.
Walk(start) ==
    LET W[i \in 0..(Len(msg) + 1)] == IF i = 0 THEN start ELSE After(W[i - 1])
    IN  W

Loops(start) == Within(Walk(start)[Len(msg) + 1])

\* The labels that are met on the way.
NameAt(start) ==
    LET way == Walk(start)
        Met[i \in 0..(Len(msg) + 1)] ==
            IF i = 0 THEN <<>>
            ELSE IF IsLabel(way[i - 1]) THEN Append(Met[i - 1], msg[way[i - 1]].label)
            ELSE Met[i - 1]
    IN  Met[Len(msg) + 1]

\* Where the message goes on after the name.
NameEnds(start) ==
    LET past == {i \in start..(Len(msg) + 1) : ~IsLabel(i)}
        end == CHOOSE i \in past : \A j \in past : i <= j
    IN  IF Within(end) THEN end + 1 ELSE end

IsName(t) == t.is \in {"label", "end", "pointer"}
NameTokens == {LabelToken(l) : l \in Label} \cup {End}
              \cup {Pointer(i) : i \in 1..(MaxTokens + 1)}

-----------------------------------------------------------------------------
(* The messages                                                            *)

\* Names alone, with pointers anywhere.
NamesArrive ==
    /\ msg = <<>>
    /\ \E n \in 1..MaxTokens : msg' \in [1..n -> NameTokens]
    /\ UNCHANGED <<isReply, count, given>>

\* The owner of a record is the name of the question or the end of it, by a pointer; a
\* label before that name; or a name written out.
Written(name) == [i \in 1..Len(name) |-> LabelToken(name[i])] \o <<End>>
Owners == {<<Pointer(1)>>, <<Pointer(2)>>} \cup {<<LabelToken(l), Pointer(1)>> : l \in Label}
          \cup {Written(<<l>>) : l \in Label}
Data == {Record(TRUE, 1), Record(TRUE, 2), Record(FALSE, 3)}
        \cup {Record(isA, Short) : isA \in BOOLEAN}
Records == {r[1] \o <<r[2]>> : r \in Owners \X Data}

\* A reply as it grows, record by record.
Grown(head, records) ==
    LET G[k \in 0..Len(records)] == IF k = 0 THEN head ELSE G[k - 1] \o records[k]
    IN  G

\* What a reader should take of the answers that a reply has, at least but for their data:
\* the A records; a failure if the data of one is cut.
Meant(qname, records, answers) ==
    LET asked == {k \in answers : Last(records[k]).a}
    IN  IF \E k \in asked : Last(records[k]).address = Short THEN Failure
        ELSE Found({<<Last(records[k]).address, qname>> : k \in asked})

\* A reply with one question, cut off after some token or in the data of its last record;
\* the records after the answers are those of the other sections.
ReplyArrives ==
    /\ msg = <<>>
    /\ count' \in 0..MaxRecords
    /\ \E name \in Label \X Label, short \in BOOLEAN, n \in 0..MaxRecords :
       \E records \in [1..n -> Records] :
        LET qname == IF short THEN <<name[1]>> ELSE name
            reply == Grown(Written(qname) \o <<Question>>, records)
        IN  \E cut \in 1..Len(reply[n]) :
            LET answers == {k \in 1..n : k <= count' /\ Len(reply[k]) <= cut}
            IN  /\ \A k \in 1..n : Last(records[k]).address = Short => Len(reply[k]) = cut
                /\ msg' = SubSeq(reply[n], 1, cut)
                /\ given' = Meant(qname, records, answers)
    /\ isReply' = TRUE

DnsNext == NamesArrive \/ ReplyArrives

DnsSpec == DnsInit /\ [][DnsNext]_dnsVars

-----------------------------------------------------------------------------
(* Properties                                                              *)

\* Every name is read as the encoding means, and reading goes on where it must; only a
\* loop of pointers makes it fail (_dns_parse_name).
NamesRead ==
    \A start \in {i \in 1..Len(msg) : IsName(msg[i])} :
        LET p == ParseName(start) IN
        /\ p.ok <=> ~Loops(start)
        /\ p.ok => p.name = NameAt(start) /\ p.off = NameEnds(start)

\* Of every reply, however its names are compressed and wherever it is cut off, exactly
\* the A records are read that it has whole and counts as answers, under the name asked
\* for, or none at all when it ends in the data of one (_dns_extract_a_records).
RecordsRead == isReply => ARecords = given
=============================================================================
