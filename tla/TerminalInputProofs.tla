----------------------- MODULE TerminalInputProofs ------------------------
(* Proofs about TerminalInput, for any number of tabs and messages. *)
EXTENDS TerminalInput, FiniteSetTheorems, WellFoundedInduction, TLAPS

-----------------------------------------------------------------------------
(* TerminalInput: the connections to the runner's socket.                  *)

\* Who has opened a connection does not wait for another, since none is opened
\* once there has been one.
ConnTypes == /\ ipc \in [Typists -> {"idle", "opening", "draining"}]
             /\ opened \in Nat /\ writer \in Nat /\ openers \subseteq Typists

ConnInv ==
    /\ ConnTypes
    /\ opened = Cardinality(openers)
    /\ runner = "starting" => opened = 0
    /\ runner = "listening" /\ opened # 0 => writer # 0
    /\ runner = "listening" => \A t \in Typists : ipc[t] = "opening" => t \notin openers

\* The actions that neither begin nor end the opening of a connection.
LEMMA NoOpening ==
    ASSUME ConnInv, UNCHANGED <<opened, openers>>,
           ipc' \in [Typists -> {"idle", "opening", "draining"}],
           \A t \in Typists : ipc'[t] = "opening" => ipc[t] = "opening",
           \/ runner' = runner /\ writer' = writer
           \/ runner = "starting" /\ runner' = "listening" /\ writer' = writer
           \/ runner' = "over" /\ writer' \in {writer, 0}
    PROVE  ConnInv'
  <1>1. ConnTypes'
    BY DEF ConnInv, ConnTypes
  <1>2. runner = "starting" => openers = {}
    <2>1. IsFiniteSet(openers)
      BY FewTypists, FS_Subset DEF ConnInv, ConnTypes
    <2> QED BY <2>1, FS_EmptySet DEF ConnInv
  <1> QED BY <1>1, <1>2 DEF ConnInv

LEMMA ServerKeepsConn == ConnInv /\ ServerStep => ConnInv'
  <1> SUFFICES ASSUME ConnInv, ServerStep PROVE ConnInv'
    OBVIOUS
  <1>1. IsFiniteSet(openers)
    BY FewTypists, FS_Subset DEF ConnInv, ConnTypes
  <1>2. ASSUME NEW t \in Typists, NEW k \in {"key", "size"}, WriteCached(t, k) PROVE ConnInv'
    BY <1>2, NoOpening DEF WriteCached, ConnInv, ConnTypes
  <1>3. ASSUME NEW t \in Typists, NEW k \in {"key", "size"}, NoSocket(t, k) PROVE ConnInv'
    BY <1>3, NoOpening DEF NoSocket, ConnInv, ConnTypes
  <1>4. ASSUME NEW t \in Typists, NEW k \in {"key", "size"}, BeginOpen(t, k) PROVE ConnInv'
    <2>1. openers = {}
      BY <1>1, <1>4, FS_EmptySet DEF BeginOpen, ConnInv
    <2>2. ConnTypes'
      BY <1>4 DEF BeginOpen, ConnInv, ConnTypes
    <2> QED BY <1>4, <2>1, <2>2 DEF BeginOpen, ConnInv
  <1>5. ASSUME NEW t \in Typists, Ignore(t) PROVE ConnInv'
    BY <1>5, NoOpening DEF Ignore, ConnInv, ConnTypes
  <1>6. ASSUME NEW t \in Typists, Opened(t) PROVE ConnInv'
    <2>1. t \notin openers
      BY <1>6 DEF Opened, ConnInv
    <2>2. Cardinality(openers \cup {t}) = Cardinality(openers) + 1
      BY <1>1, <2>1, FS_AddElement
    <2>3. ConnTypes'
      BY <1>6 DEF Opened, ConnInv, ConnTypes
    <2>4. opened' # 0 /\ writer' # 0
      BY <1>6 DEF Opened, ConnInv, ConnTypes
    <2>5. opened' = Cardinality(openers')
      BY <1>6, <2>2 DEF Opened, ConnInv
    <2>6. \A u \in Typists : ipc'[u] = "opening" => u \notin openers'
      BY <1>6 DEF Opened, ConnInv, ConnTypes
    <2> QED BY <1>6, <2>3, <2>4, <2>5, <2>6 DEF Opened, ConnInv
  <1>7. ASSUME NEW t \in Typists, OpenFails(t) PROVE ConnInv'
    BY <1>7, NoOpening DEF OpenFails, ConnInv, ConnTypes
  <1>8. ASSUME NEW t \in Typists, Drained(t) PROVE ConnInv'
    BY <1>8, NoOpening DEF Drained, ConnInv, ConnTypes
  <1>9. CASE ForgetWriter
    BY <1>9, NoOpening DEF ForgetWriter, ConnInv, ConnTypes
  <1> QED BY <1>2, <1>3, <1>4, <1>5, <1>6, <1>7, <1>8, <1>9, Zenon DEF ServerStep

LEMMA RunnerKeepsConn == ConnInv /\ RunnerStep => ConnInv'
  <1> SUFFICES ASSUME ConnInv, RunnerStep PROVE ConnInv'
    OBVIOUS
  <1>1. CASE Listen
    BY <1>1, NoOpening DEF Listen, ConnInv, ConnTypes
  <1>2. CASE EndRun
    BY <1>2, NoOpening DEF EndRun, ConnInv, ConnTypes
  <1>3. ASSUME NEW c \in 1..opened, Read(c) PROVE ConnInv'
    <2>1. UNCHANGED <<runner, ipc, writer, opened, openers>>
      BY <1>3 DEF Read
    <2> QED BY <2>1, NoOpening DEF ConnInv, ConnTypes
  <1> QED BY <1>1, <1>2, <1>3, Zenon DEF RunnerStep

LEMMA AlwaysConnInv == InputSpec => []ConnInv
  <1>1. InputInit => ConnInv
    BY FS_EmptySet DEF InputInit, ConnInv, ConnTypes
  <1>2. ConnInv /\ [InputNext]_inputVars => ConnInv'
    <2> SUFFICES ASSUME ConnInv, [InputNext]_inputVars PROVE ConnInv'
      OBVIOUS
    <2>1. CASE UNCHANGED inputVars
      BY <2>1 DEF inputVars, ConnInv, ConnTypes
    <2> QED BY <2>1, ServerKeepsConn, RunnerKeepsConn DEF InputNext
  <1> QED BY <1>1, <1>2, PTL DEF InputSpec

\* Any number of tabs open at most one connection each to the socket of the runner,
\* although _pty_writer awaits between its look at the table and its entry there.
THEOREM OneConnectionEach == InputSpec => []FewConnections
  <1>1. ConnInv => FewConnections
    <2> SUFFICES ASSUME ConnInv PROVE FewConnections
      OBVIOUS
    <2>1. Cardinality(openers) <= Cardinality(Typists)
      BY FewTypists, FS_Subset DEF ConnInv, ConnTypes
    <2> QED BY <2>1 DEF ConnInv, FewConnections
  <1> QED BY <1>1, AlwaysConnInv, PTL

-----------------------------------------------------------------------------
(* Induction over natural numbers, by a least counterexample.              *)

LEMMA LeastOf ==
    ASSUME NEW R, IsWellFoundedOn(R, Nat), NEW X, X \subseteq Nat, X # {}
    PROVE  \E m \in X : \A n \in X : <<n, m>> \notin R
  BY WFMin, Zenon

LEMMA NotLess ==
    ASSUME NEW R, \A a, b \in Nat : <<a, b>> \in R <=> a < b,
           NEW X, X \subseteq Nat, NEW m \in X, \A n \in X : <<n, m>> \notin R
    PROVE  \A n \in X : ~(n < m)
  BY Zenon

LEMMA LeastNat ==
    ASSUME NEW X, X \subseteq Nat, X # {}
    PROVE  \E m \in X : \A n \in X : ~(n < m)
  <1>1. IsWellFoundedOn({ss \in Nat \X Nat : ss[1] < ss[2]}, Nat)
    BY Zenon, NatLessThanWellFounded DEF OpToRel
  <1>2. \A a, b \in Nat : <<a, b>> \in {ss \in Nat \X Nat : ss[1] < ss[2]} <=> a < b
    OBVIOUS
  <1>3. PICK m \in X : \A n \in X : <<n, m>> \notin {ss \in Nat \X Nat : ss[1] < ss[2]}
    BY <1>1, LeastOf, Zenon
  <1> QED BY <1>2, <1>3, NotLess, Zenon

\* A set of numbers that has 0, and with each number below n the next, has n.
LEMMA Climb ==
    ASSUME NEW n \in Nat, NEW S, 0 \in S, \A i \in 0..(n - 1) : i \in S => i + 1 \in S
    PROVE  n \in S
  <1> DEFINE X == {i \in 0..n : i \notin S}
  <1>1. SUFFICES ASSUME X # {} PROVE FALSE
    OBVIOUS
  <1>2. X \subseteq Nat
    OBVIOUS
  <1> HIDE DEF X
  <1>3. PICK m \in X : \A i \in X : ~(i < m)
    BY <1>1, <1>2, LeastNat
  <1>4. m \in 0..n /\ m \notin S /\ m # 0
    BY <1>3 DEF X
  <1>5. m - 1 \in 0..(n - 1) /\ m - 1 \notin X
    BY <1>3, <1>4
  <1>6. m - 1 \in S
    BY <1>4, <1>5 DEF X
  <1> QED BY <1>4, <1>5, <1>6

(* Outside: what is written of a chunk.                                    *)

\* One step of the recursion, and the functions that take it everywhere up to n.
OneMore(r, chunk, frames, i) ==
    IF i = 0 THEN <<>>
    ELSE IF chunk[i].m \in frames THEN r[i - 1] ELSE Append(r[i - 1], chunk[i])

IsRest(r, chunk, frames, n) == r = [i \in 0..n |-> OneMore(r, chunk, frames, i)]

LEMMA RestExists ==
    ASSUME NEW chunk, NEW frames, NEW n \in Nat
    PROVE  \E r : IsRest(r, chunk, frames, n)
  <1> DEFINE S == {i \in Nat : \E r : IsRest(r, chunk, frames, i)}
  <1>1. 0 \in S
    <2> DEFINE r == [i \in 0..0 |-> <<>>]
    <2>1. IsRest(r, chunk, frames, 0)
      BY DEF IsRest, OneMore
    <2> QED BY <2>1
  <1>2. ASSUME NEW i \in 0..(n - 1), i \in S PROVE i + 1 \in S
    <2>1. PICK f : IsRest(f, chunk, frames, i)
      BY <1>2
    <2> DEFINE r == [j \in 0..(i + 1) |-> IF j = i + 1 THEN OneMore(f, chunk, frames, i + 1)
                                          ELSE f[j]]
    <2>2. \A j \in 0..i : r[j] = f[j] /\ f[j] = OneMore(f, chunk, frames, j)
      BY <2>1 DEF IsRest
    <2>3. ASSUME NEW j \in 0..i PROVE OneMore(f, chunk, frames, j) = OneMore(r, chunk, frames, j)
      BY <2>2 DEF OneMore
    <2>4. r[i + 1] = OneMore(r, chunk, frames, i + 1)
      BY <2>2 DEF OneMore
    <2>5. \A j \in 0..(i + 1) : r[j] = OneMore(r, chunk, frames, j)
      BY <2>2, <2>3, <2>4
    <2>6. r = [j \in 0..(i + 1) |-> r[j]]
      OBVIOUS
    <2> HIDE DEF r
    <2>7. r = [j \in 0..(i + 1) |-> OneMore(r, chunk, frames, j)]
      BY <2>5, <2>6
    <2>8. \E q : IsRest(q, chunk, frames, i + 1)
      BY <2>7 DEF IsRest
    <2> QED BY <2>8
  <1> HIDE DEF S
  <1>3. n \in S
    BY <1>1, <1>2, Climb
  <1> QED BY <1>3 DEF S

LEMMA OutsideUnfolds ==
    ASSUME NEW chunk \in Seq(Token), NEW frames
    PROVE  \E r : IsRest(r, chunk, frames, Len(chunk)) /\ Outside(chunk, frames) = r[Len(chunk)]
  <1> DEFINE c == CHOOSE r : IsRest(r, chunk, frames, Len(chunk))
  <1>1. IsRest(c, chunk, frames, Len(chunk))
    <2>1. Len(chunk) \in Nat
      OBVIOUS
    <2>2. \E r : IsRest(r, chunk, frames, Len(chunk))
      BY <2>1, RestExists, Zenon
    <2> QED BY <2>2, Zenon
  <1>2. Outside(chunk, frames) = c[Len(chunk)]
    BY DEF Outside, IsRest, OneMore
  <1> HIDE DEF c
  <1> QED BY <1>1, <1>2

\* The filter keeps the tokens outside the frames, those only, and their order.
Kept(out, chunk, frames, n) ==
    /\ out \in Seq(Token)
    /\ \A a \in 1..Len(out) : \E b \in 1..n : out[a] = chunk[b] /\ chunk[b].m \notin frames
    /\ \A b \in 1..n : chunk[b].m \notin frames => \E a \in 1..Len(out) : out[a] = chunk[b]
    /\ \A a1, a2 \in 1..Len(out) : a1 < a2 =>
           \E b1, b2 \in 1..n : b1 < b2 /\ out[a1] = chunk[b1] /\ out[a2] = chunk[b2]

LEMMA KeptMore ==
    ASSUME NEW chunk \in Seq(Token), NEW frames, NEW i \in Nat, i + 1 <= Len(chunk),
           NEW out, Kept(out, chunk, frames, i)
    PROVE  Kept(IF chunk[i + 1].m \in frames THEN out ELSE Append(out, chunk[i + 1]),
                chunk, frames, i + 1)
  <1>1. CASE chunk[i + 1].m \in frames
    BY <1>1 DEF Kept
  <1>2. CASE chunk[i + 1].m \notin frames
    <2> DEFINE new == Append(out, chunk[i + 1])
    <2>1. /\ new \in Seq(Token) /\ Len(new) = Len(out) + 1
          /\ new[Len(out) + 1] = chunk[i + 1]
          /\ \A a \in 1..Len(out) : new[a] = out[a]
          /\ out \in Seq(Token)
      BY DEF Kept
    <2> HIDE DEF new
    <2>2. ASSUME NEW a \in 1..Len(new)
          PROVE  \E b \in 1..(i + 1) : new[a] = chunk[b] /\ chunk[b].m \notin frames
      <3>1. CASE a = Len(out) + 1
        <4>1. i + 1 \in 1..(i + 1)
          OBVIOUS
        <4> QED BY <1>2, <2>1, <3>1, <4>1
      <3>2. CASE a \in 1..Len(out)
        <4>1. PICK b \in 1..i : out[a] = chunk[b] /\ chunk[b].m \notin frames
          BY <3>2 DEF Kept
        <4> QED BY <2>1, <3>2, <4>1
      <3> QED BY <2>1, <3>1, <3>2
    <2>3. ASSUME NEW b \in 1..(i + 1), chunk[b].m \notin frames
          PROVE  \E a \in 1..Len(new) : new[a] = chunk[b]
      <3>1. CASE b = i + 1
        BY <2>1, <3>1
      <3>2. CASE b \in 1..i
        <4>1. PICK a \in 1..Len(out) : out[a] = chunk[b]
          BY <2>3, <3>2 DEF Kept
        <4> QED BY <2>1, <4>1
      <3> QED BY <3>1, <3>2
    <2>4. ASSUME NEW a1 \in 1..Len(new), NEW a2 \in 1..Len(new), a1 < a2
          PROVE  \E b1, b2 \in 1..(i + 1) :
                    b1 < b2 /\ new[a1] = chunk[b1] /\ new[a2] = chunk[b2]
      <3>1. CASE a2 = Len(out) + 1
        <4>1. a1 \in 1..Len(out) /\ new[a1] = out[a1]
          BY <2>1, <2>4, <3>1
        <4>2. PICK b \in 1..i : out[a1] = chunk[b]
          BY <4>1 DEF Kept
        <4>3. b \in 1..(i + 1) /\ i + 1 \in 1..(i + 1) /\ b < i + 1
          OBVIOUS
        <4> QED BY <2>1, <3>1, <4>1, <4>2, <4>3
      <3>2. CASE a2 \in 1..Len(out)
        <4>1. a1 \in 1..Len(out) /\ new[a1] = out[a1] /\ new[a2] = out[a2]
          BY <2>1, <2>4, <3>2
        <4>2. PICK b1 \in 1..i, b2 \in 1..i :
                 b1 < b2 /\ out[a1] = chunk[b1] /\ out[a2] = chunk[b2]
          BY <2>4, <3>2, <4>1 DEF Kept
        <4>3. b1 \in 1..(i + 1) /\ b2 \in 1..(i + 1)
          OBVIOUS
        <4> QED BY <4>1, <4>2, <4>3
      <3> QED BY <2>1, <2>4, <3>1, <3>2
    <2>5. Kept(new, chunk, frames, i + 1)
      BY <2>1, <2>2, <2>3, <2>4 DEF Kept
    <2> QED BY <1>2, <2>5 DEF new
  <1> QED BY <1>1, <1>2

LEMMA OutsideKeeps ==
    ASSUME NEW chunk \in Seq(Token), NEW frames
    PROVE  Kept(Outside(chunk, frames), chunk, frames, Len(chunk))
  <1>1. PICK r : IsRest(r, chunk, frames, Len(chunk)) /\ Outside(chunk, frames) = r[Len(chunk)]
    BY OutsideUnfolds
  <1>2. \A i \in 0..Len(chunk) : r[i] = OneMore(r, chunk, frames, i)
    BY <1>1 DEF IsRest
  <1> DEFINE S == {i \in Nat : Kept(r[i], chunk, frames, i)}
  <1>3. 0 \in S
    <2>1. r[0] = <<>>
      BY <1>2 DEF OneMore
    <2>2. Len(<<>>) = 0 /\ <<>> \in Seq(Token) /\ 1..0 = {}
      OBVIOUS
    <2>3. Kept(<<>>, chunk, frames, 0)
      BY <2>2 DEF Kept
    <2> QED BY <2>1, <2>3
  <1>4. ASSUME NEW i \in 0..(Len(chunk) - 1), i \in S PROVE i + 1 \in S
    <2>1. i \in Nat /\ i + 1 <= Len(chunk) /\ Kept(r[i], chunk, frames, i)
      BY <1>4
    <2>2. r[i + 1] = IF chunk[i + 1].m \in frames THEN r[i] ELSE Append(r[i], chunk[i + 1])
      BY <1>2, <2>1 DEF OneMore
    <2> QED BY <2>1, <2>2, KeptMore
  <1> HIDE DEF S
  <1>5. Len(chunk) \in S
    BY <1>3, <1>4, Climb
  <1> QED BY <1>1, <1>5 DEF S

-----------------------------------------------------------------------------
(* Sequences whose elements stand pairwise in a relation.                  *)

Chain(s, R) == \A i, j \in 1..Len(s) : i < j => <<s[i], s[j]>> \in R
Follows(s, t, R) == \A i \in 1..Len(s), j \in 1..Len(t) : <<s[i], t[j]>> \in R

LEMMA ConcatIndex ==
    ASSUME NEW s \in Seq(Token), NEW t \in Seq(Token), NEW i \in 1..Len(s \o t)
    PROVE  \/ i \in 1..Len(s) /\ (s \o t)[i] = s[i]
           \/ i - Len(s) \in 1..Len(t) /\ (s \o t)[i] = t[i - Len(s)]
  OBVIOUS

LEMMA ConcatHas ==
    ASSUME NEW s \in Seq(Token), NEW t \in Seq(Token)
    PROVE  /\ s \o t \in Seq(Token) /\ Len(s \o t) = Len(s) + Len(t)
           /\ \A i \in 1..Len(s) : (s \o t)[i] = s[i]
           /\ \A i \in 1..Len(t) : (s \o t)[Len(s) + i] = t[i]
  OBVIOUS

LEMMA ConcatMessages ==
    ASSUME NEW s \in Seq(Token), NEW t \in Seq(Token)
    PROVE  MessagesIn(s \o t) = MessagesIn(s) \cup MessagesIn(t)
  <1>1. ASSUME NEW i \in 1..Len(s \o t)
        PROVE  (s \o t)[i].m \in MessagesIn(s) \cup MessagesIn(t)
    BY ConcatIndex DEF MessagesIn
  <1>2. \A i \in 1..Len(s) : i \in 1..Len(s \o t) /\ (s \o t)[i].m = s[i].m
    BY ConcatHas
  <1>3. \A i \in 1..Len(t) : Len(s) + i \in 1..Len(s \o t) /\ (s \o t)[Len(s) + i].m = t[i].m
    BY ConcatHas
  <1>4. MessagesIn(s \o t) \subseteq MessagesIn(s) \cup MessagesIn(t)
    BY <1>1 DEF MessagesIn
  <1>5. MessagesIn(s) \subseteq MessagesIn(s \o t) /\ MessagesIn(t) \subseteq MessagesIn(s \o t)
    <2> DEFINE u == s \o t
    <2> HIDE DEF u
    <2>1. ASSUME \A i \in 1..Len(s) : i \in 1..Len(u) /\ u[i].m = s[i].m,
                 \A i \in 1..Len(t) : Len(s) + i \in 1..Len(u) /\ u[Len(s) + i].m = t[i].m
          PROVE  MessagesIn(s) \subseteq MessagesIn(u) /\ MessagesIn(t) \subseteq MessagesIn(u)
      BY <2>1 DEF MessagesIn
    <2> QED BY <1>2, <1>3, <2>1 DEF u
  <1> QED BY <1>4, <1>5

LEMMA ConcatChain ==
    ASSUME NEW s \in Seq(Token), NEW t \in Seq(Token), NEW R,
           Chain(s, R), Chain(t, R), Follows(s, t, R)
    PROVE  Chain(s \o t, R)
  <1> SUFFICES ASSUME NEW i \in 1..Len(s \o t), NEW j \in 1..Len(s \o t), i < j
               PROVE  <<(s \o t)[i], (s \o t)[j]>> \in R
    BY DEF Chain
  <1>1. CASE j \in 1..Len(s)
    <2>1. i \in 1..Len(s) /\ (s \o t)[i] = s[i] /\ (s \o t)[j] = s[j]
      BY <1>1, ConcatHas
    <2> QED BY <2>1, <1>1 DEF Chain
  <1>2. CASE i \in 1..Len(s) /\ j - Len(s) \in 1..Len(t)
    <2>1. (s \o t)[i] = s[i] /\ (s \o t)[j] = t[j - Len(s)]
      BY <1>2, ConcatIndex
    <2> QED BY <2>1, <1>2 DEF Follows
  <1>3. CASE i - Len(s) \in 1..Len(t) /\ j - Len(s) \in 1..Len(t)
    <2>1. /\ (s \o t)[i] = t[i - Len(s)] /\ (s \o t)[j] = t[j - Len(s)]
          /\ i - Len(s) < j - Len(s)
      BY <1>3, ConcatIndex
    <2> QED BY <2>1, <1>3 DEF Chain
  <1> QED BY <1>1, <1>2, <1>3, ConcatIndex

LEMMA ConcatFollows ==
    ASSUME NEW s \in Seq(Token), NEW t \in Seq(Token), NEW u \in Seq(Token), NEW R
    PROVE  /\ Follows(s, u, R) /\ Follows(t, u, R) => Follows(s \o t, u, R)
           /\ Follows(u, s, R) /\ Follows(u, t, R) => Follows(u, s \o t, R)
  <1>1. ASSUME Follows(s, u, R), Follows(t, u, R), NEW i \in 1..Len(s \o t),
               NEW j \in 1..Len(u)
        PROVE  <<(s \o t)[i], u[j]>> \in R
    <2>1. CASE i \in 1..Len(s) /\ (s \o t)[i] = s[i]
      BY <1>1, <2>1 DEF Follows
    <2>2. CASE i - Len(s) \in 1..Len(t) /\ (s \o t)[i] = t[i - Len(s)]
      BY <1>1, <2>2 DEF Follows
    <2> QED BY <2>1, <2>2, ConcatIndex
  <1>2. ASSUME Follows(u, s, R), Follows(u, t, R), NEW i \in 1..Len(s \o t),
               NEW j \in 1..Len(u)
        PROVE  <<u[j], (s \o t)[i]>> \in R
    <2>1. CASE i \in 1..Len(s) /\ (s \o t)[i] = s[i]
      BY <1>2, <2>1 DEF Follows
    <2>2. CASE i - Len(s) \in 1..Len(t) /\ (s \o t)[i] = t[i - Len(s)]
      BY <1>2, <2>2 DEF Follows
    <2> QED BY <2>1, <2>2, ConcatIndex
  <1> QED BY <1>1, <1>2 DEF Follows

\* A read cuts a stream into a chunk and the rest.
LEMMA Cutting ==
    ASSUME NEW s \in Seq(Token), NEW n \in 1..Len(s)
    PROVE  LET chunk == SubSeq(s, 1, n)
               rest == SubSeq(s, n + 1, Len(s))
           IN  /\ chunk \in Seq(Token) /\ Len(chunk) = n
               /\ rest \in Seq(Token) /\ Len(rest) = Len(s) - n
               /\ \A i \in 1..n : chunk[i] = s[i]
               /\ \A i \in 1..(Len(s) - n) : rest[i] = s[n + i]
  OBVIOUS

\* What is written of a chunk keeps its relations, to itself and to others.
LEMMA OutsideChain ==
    ASSUME NEW chunk \in Seq(Token), NEW frames, NEW R, Chain(chunk, R)
    PROVE  Chain(Outside(chunk, frames), R)
  <1> DEFINE out == Outside(chunk, frames)
  <1>1. Kept(out, chunk, frames, Len(chunk))
    BY OutsideKeeps
  <1> HIDE DEF out
  <1>2. ASSUME NEW i \in 1..Len(out), NEW j \in 1..Len(out), i < j
        PROVE  <<out[i], out[j]>> \in R
    <2>1. PICK a \in 1..Len(chunk), b \in 1..Len(chunk) :
             a < b /\ out[i] = chunk[a] /\ out[j] = chunk[b]
      BY <1>1, <1>2 DEF Kept
    <2> QED BY <2>1 DEF Chain
  <1> QED BY <1>2 DEF Chain, out

LEMMA OutsideFollows ==
    ASSUME NEW chunk \in Seq(Token), NEW frames, NEW R, NEW s \in Seq(Token)
    PROVE  /\ Follows(s, chunk, R) => Follows(s, Outside(chunk, frames), R)
           /\ Follows(chunk, s, R) => Follows(Outside(chunk, frames), s, R)
  <1> DEFINE out == Outside(chunk, frames)
  <1>1. Kept(out, chunk, frames, Len(chunk))
    BY OutsideKeeps
  <1> HIDE DEF out
  <1>2. \A j \in 1..Len(out) : \E b \in 1..Len(chunk) : out[j] = chunk[b]
    BY <1>1 DEF Kept
  <1>3. Follows(s, chunk, R) => Follows(s, out, R)
    BY <1>2 DEF Follows
  <1>4. Follows(chunk, s, R) => Follows(out, s, R)
    BY <1>2 DEF Follows
  <1> QED BY <1>3, <1>4 DEF out

-----------------------------------------------------------------------------
(* TerminalInput: the way of a message.                                    *)

Different == {p \in Token \X Token : p[1] # p[2]}
InTurn == {p \in Different : p[1].m[1] = p[2].m[1] => p[1].m[2] <= p[2].m[2]}
Rel == IF opened <= 1 THEN InTurn ELSE Different

InputTypes ==
    /\ ipc \in [Typists -> {"idle", "opening", "draining"}]
    /\ kind \in [Typists -> {"key", "size"}]
    /\ received \in [Typists -> 0..MaxMessages]
    /\ \A t \in Typists : ipc[t] = "opening" => received[t] # 0
    /\ opened \in Nat /\ writer \in 0..opened
    /\ stream \in Seq(Seq(Token)) /\ Len(stream) = opened
    /\ typed \in Seq(Token)
    /\ browserMaster \in BOOLEAN /\ runner \in {"starting", "listening", "over"}
    /\ openers \subseteq Typists
    /\ applied \subseteq Messages /\ cut \subseteq Messages /\ dropped \subseteq Messages

\* Messages that have left the handler of their tab.
Sent == {m \in Messages : m[2] <= received[m[1]] /\ (ipc[m[1]] = "opening" => m[2] # received[m[1]])}

Senders == /\ MessagesIn(typed) \subseteq Sent
           /\ \A c \in 1..opened : MessagesIn(stream[c]) \subseteq Sent

\* No token is in two places, and those of a tab are in order on each connection,
\* and on the terminal too if there is one connection.
Places ==
    /\ Chain(typed, Rel)
    /\ \A c \in 1..opened : Chain(stream[c], InTurn) /\ Follows(typed, stream[c], Rel)
    /\ \A c, d \in 1..opened : c # d => Follows(stream[c], stream[d], Different)
    /\ opened = 0 => typed = <<>>

Arrived(t, n) ==
    \/ <<t, n>> \in MessagesIn(typed) \cup applied \cup dropped
    \/ n = received[t] /\ ipc[t] = "opening"
    \/ \E c \in 1..opened : <<t, n>> \in MessagesIn(stream[c])

AllArrive == \A t \in Typists : \A n \in 1..received[t] : Arrived(t, n)

CutIsTyped == \A i \in 1..Len(typed) : typed[i].part # "key" => typed[i].m \in cut

InputInv == InputTypes /\ Senders /\ Places /\ AllArrive /\ CutIsTyped

LEMMA RelBetween == InTurn \subseteq Rel /\ Rel \subseteq Different /\ InTurn \subseteq Different
  BY DEF InTurn, Rel

LEMMA TokenParts ==
    /\ \A x \in Token : x.m \in Messages /\ x.part \in {"key", "head", "tail"}
    /\ \A m \in Messages : m[1] \in Typists /\ m[2] \in 1..MaxMessages /\ m = <<m[1], m[2]>>
  BY DEF Token, Messages

LEMMA TokensAre ==
    ASSUME NEW m \in Messages, NEW k \in {"key", "size"}
    PROVE  /\ Tokens(m, k) \in Seq(Token) /\ Len(Tokens(m, k)) >= 1
           /\ \A i \in 1..Len(Tokens(m, k)) : Tokens(m, k)[i].m = m
           /\ Chain(Tokens(m, k), InTurn)
  <1>1. CASE k = "key"
    <2> DEFINE x == [m |-> m, part |-> "key"]
    <2>1. Tokens(m, k) = <<x>>
      BY <1>1 DEF Tokens
    <2>2. x \in Token /\ x.m = m
      BY DEF Token
    <2> HIDE DEF x
    <2> QED BY <2>1, <2>2 DEF Chain
  <1>2. CASE k = "size"
    <2> DEFINE h == [m |-> m, part |-> "head"]
               l == [m |-> m, part |-> "tail"]
    <2>1. Tokens(m, k) = <<h, l>>
      BY <1>2 DEF Tokens
    <2>2. h \in Token /\ l \in Token /\ h # l /\ h.m = m /\ l.m = m /\ m[2] <= m[2]
      BY MessageBound DEF Token, Messages
    <2>3. <<h, l>> \in InTurn
      BY <2>2 DEF InTurn, Different
    <2> HIDE DEF h, l
    <2> QED BY <2>1, <2>2, <2>3 DEF Chain
  <1> QED BY <1>1, <1>2

LEMMA TokensMessages ==
    ASSUME NEW m \in Messages, NEW k \in {"key", "size"}
    PROVE  MessagesIn(Tokens(m, k)) = {m}
  <1> DEFINE T == Tokens(m, k)
  <1>1. T \in Seq(Token) /\ Len(T) >= 1 /\ \A i \in 1..Len(T) : T[i].m = m
    BY TokensAre
  <1> HIDE DEF T
  <1>2. 1 \in 1..Len(T)
    BY <1>1
  <1>3. MessagesIn(T) = {m}
    BY <1>1, <1>2 DEF MessagesIn
  <1> QED BY <1>3 DEF T

\* The tokens of a message that has not left yet come after all that have.
LEMMA NewFollows ==
    ASSUME InputTypes, NEW s \in Seq(Token), MessagesIn(s) \subseteq Sent, NEW m \in Messages,
           NEW k \in {"key", "size"}, m \notin Sent, received[m[1]] <= m[2]
    PROVE  Follows(s, Tokens(m, k), InTurn) /\ Follows(Tokens(m, k), s, Different)
  <1> DEFINE T == Tokens(m, k)
  <1>1. T \in Seq(Token) /\ \A i \in 1..Len(T) : T[i].m = m
    BY TokensAre
  <1> HIDE DEF T
  <1>2. ASSUME NEW i \in 1..Len(s), NEW j \in 1..Len(T)
        PROVE  <<s[i], T[j]>> \in InTurn /\ <<T[j], s[i]>> \in Different
    <2>1. s[i] \in Token /\ T[j] \in Token /\ T[j].m = m /\ s[i].m \in Messages
      BY <1>1, TokenParts
    <2>2. s[i].m \in Sent
      BY DEF MessagesIn
    <2>3. s[i] # T[j]
      BY <2>1, <2>2
    <2>4. s[i].m[1] = m[1] => s[i].m[2] <= m[2]
      <3>1. /\ s[i].m[2] \in Nat /\ m[2] \in Nat /\ received[m[1]] \in Nat
            /\ s[i].m[2] <= received[s[i].m[1]]
        BY <2>1, <2>2, TokenParts, MessageBound DEF InputTypes, Sent
      <3> QED BY <3>1
    <2> QED BY <2>1, <2>3, <2>4 DEF InTurn, Different
  <1>3. Follows(s, T, InTurn) /\ Follows(T, s, Different)
    BY <1>2 DEF Follows
  <1> QED BY <1>3 DEF T

\* Steps after which every token is where it was.
LEMMA QuietStep ==
    ASSUME InputInv, InputTypes', UNCHANGED <<typed, stream, opened, applied, cut>>,
           dropped \subseteq dropped', Sent \subseteq Sent',
           \A t \in Typists : \A n \in 1..received'[t] :
              \/ n \in 1..received[t] /\ ~(n = received[t] /\ ipc[t] = "opening")
              \/ <<t, n>> \in dropped'
              \/ n = received'[t] /\ ipc'[t] = "opening"
    PROVE  InputInv'
  <1>1. Senders'
    <2>1. MessagesIn(typed)' = MessagesIn(typed)
          /\ \A c \in 1..opened : MessagesIn(stream'[c]) = MessagesIn(stream[c])
      BY DEF MessagesIn
    <2> QED BY <2>1 DEF InputInv, Senders
  <1>2. Places'
    <2>1. Rel' = Rel /\ InTurn' = InTurn /\ Different' = Different
      BY DEF Rel, InTurn, Different
    <2>2. /\ Chain(typed, Rel) /\ (opened = 0 => typed = <<>>)
          /\ \A c \in 1..opened : Chain(stream[c], InTurn) /\ Follows(typed, stream[c], Rel)
          /\ \A c, d \in 1..opened : c # d => Follows(stream[c], stream[d], Different)
      BY DEF InputInv, Places
    <2>3. Chain(typed', Rel') /\ (opened' = 0 => typed' = <<>>)
      BY <2>1, <2>2
    <2>4. \A c \in 1..opened' : Chain(stream'[c], InTurn') /\ Follows(typed', stream'[c], Rel')
      BY <2>1, <2>2
    <2>5. \A c, d \in 1..opened' : c # d => Follows(stream'[c], stream'[d], Different')
      BY <2>1, <2>2
    <2> QED BY <2>3, <2>4, <2>5 DEF Places, Chain, Follows
  <1>3. AllArrive'
    <2> SUFFICES ASSUME NEW t \in Typists, NEW n \in 1..received'[t] PROVE Arrived(t, n)'
      BY DEF AllArrive
    <2>1. CASE n \in 1..received[t] /\ ~(n = received[t] /\ ipc[t] = "opening")
      BY <2>1 DEF InputInv, AllArrive, Arrived
    <2>2. CASE <<t, n>> \in dropped' \/ (n = received'[t] /\ ipc'[t] = "opening")
      BY <2>2 DEF Arrived
    <2> QED BY <2>1, <2>2
  <1>4. CutIsTyped'
    BY DEF InputInv, CutIsTyped
  <1> QED BY <1>1, <1>2, <1>3, <1>4 DEF InputInv

\* A looser relation holds where a tighter one does.
LEMMA Looser ==
    ASSUME NEW Q, NEW R, Q \subseteq R, NEW s, NEW t
    PROVE  (Chain(s, Q) => Chain(s, R)) /\ (Follows(s, t, Q) => Follows(s, t, R))
  BY DEF Chain, Follows

LEMMA CachedStep ==
    ASSUME InputInv, NEW t \in Typists, NEW k \in {"key", "size"}, WriteCached(t, k)
    PROVE  InputInv'
  <1>1. PICK m : m = <<t, received[t] + 1>>
    OBVIOUS
  <1> DEFINE T == Tokens(m, k)
             old == stream[writer]
  <1>2. /\ ipc[t] = "idle" /\ received[t] < MaxMessages /\ received[t] \in Nat
        /\ received' = [received EXCEPT ![t] = received[t] + 1]
        /\ ipc' = [ipc EXCEPT ![t] = "draining"] /\ kind' = [kind EXCEPT ![t] = k]
        /\ writer \in 1..opened /\ opened \in Nat
        /\ stream' = [stream EXCEPT ![writer] = old \o T]
        /\ UNCHANGED <<browserMaster, runner, writer, opened, openers, typed, applied, cut,
                       dropped>>
    <2>1. received[t] \in 0..MaxMessages /\ ipc[t] = "idle" /\ received[t] < MaxMessages
          /\ received' = [received EXCEPT ![t] = received[t] + 1]
          /\ writer \in 0..opened /\ writer # 0 /\ opened \in Nat
      BY DEF WriteCached, Taken, Receive, InputInv, InputTypes
    <2>2. AtHand(t)' = m
      BY <1>1, <2>1 DEF AtHand, InputInv, InputTypes
    <2> QED BY <2>1, <2>2, MessageBound DEF WriteCached, Taken, Receive
  <1>3. m \in Messages
    BY <1>1, <1>2, MessageBound DEF Messages
  <1>4. /\ T \in Seq(Token) /\ Len(T) >= 1 /\ MessagesIn(T) = {m}
        /\ Chain(T, InTurn)
    BY <1>3, TokensAre, TokensMessages
  <1>5. /\ stream \in Seq(Seq(Token)) /\ Len(stream) = opened
        /\ old \in Seq(Token) /\ typed \in Seq(Token)
        /\ \A c \in 1..opened : stream[c] \in Seq(Token)
    BY <1>2 DEF InputInv, InputTypes
  <1>6. m[1] = t /\ m[2] = received[t] + 1 /\ m \notin Sent /\ received[m[1]] <= m[2]
    BY <1>1, <1>2 DEF Sent
  <1>7. \A s \in Seq(Token) : MessagesIn(s) \subseteq Sent =>
            Follows(s, T, InTurn) /\ Follows(T, s, Different)
    BY <1>3, <1>6, NewFollows DEF InputInv
  <1>8. /\ stream' \in Seq(Seq(Token)) /\ Len(stream') = opened
        /\ stream'[writer] = old \o T
        /\ \A c \in 1..opened : c # writer => stream'[c] = stream[c]
    <2>1. old \o T \in Seq(Token)
      BY <1>4, <1>5
    <2> HIDE DEF T, old
    <2> QED BY <1>2, <1>5, <2>1
  <1> HIDE DEF T, old
  <1>9. InputTypes'
    <2>1. received' \in [Typists -> 0..MaxMessages]
      BY <1>2, MessageBound DEF InputInv, InputTypes
    <2> QED BY <1>2, <1>8, <2>1 DEF InputInv, InputTypes
  <1>10. Sent \subseteq Sent' /\ m \in Sent'
    <2>1. ASSUME NEW q \in Messages, q \in Sent PROVE q \in Sent'
      <3>1. q[1] \in Typists /\ q[2] \in Nat /\ received[q[1]] \in Nat
        BY TokenParts, MessageBound DEF InputInv, InputTypes
      <3> QED BY <1>2, <2>1, <3>1 DEF Sent, InputInv, InputTypes
    <2>2. m \in Sent'
      BY <1>2, <1>3, <1>6 DEF Sent, InputInv, InputTypes
    <2> QED BY <2>1, <2>2 DEF Sent
  <1>11. MessagesIn(typed) \subseteq Sent /\ \A c \in 1..opened : MessagesIn(stream[c]) \subseteq Sent
    BY DEF InputInv, Senders
  <1>12. MessagesIn(stream'[writer]) = MessagesIn(old) \cup {m}
    BY <1>4, <1>5, <1>8, ConcatMessages
  <1>13. MessagesIn(typed') = MessagesIn(typed)
         /\ \A c \in 1..opened : MessagesIn(stream[c]) \subseteq MessagesIn(stream'[c])
    BY <1>2, <1>8, <1>12 DEF old
  <1>14. Senders'
    <2>1. \A c \in 1..opened : MessagesIn(stream'[c]) \subseteq Sent'
      BY <1>2, <1>8, <1>10, <1>11, <1>12 DEF old
    <2> QED BY <1>2, <1>10, <1>11, <1>13, <2>1 DEF Senders, MessagesIn
  <1>15. Places'
    <2>1. Rel' = Rel /\ InTurn' = InTurn /\ Different' = Different
      BY <1>2 DEF Rel, InTurn, Different
    <2>2. Chain(stream'[writer], InTurn)
      BY <1>2, <1>4, <1>5, <1>7, <1>8, <1>11, ConcatChain DEF InputInv, Places, old
    <2>3. Follows(typed, stream'[writer], Rel)
      <3>1. Follows(typed, T, Rel)
        BY <1>5, <1>7, <1>11, Looser, RelBetween
      <3>2. Follows(typed, old, Rel)
        BY <1>2 DEF InputInv, Places, old
      <3> QED BY <1>4, <1>5, <1>8, <3>1, <3>2, ConcatFollows
    <2>4. ASSUME NEW c \in 1..opened, c # writer
          PROVE  Follows(stream[c], stream'[writer], Different)
                 /\ Follows(stream'[writer], stream[c], Different)
      <3>1. Follows(stream[c], T, Different) /\ Follows(T, stream[c], Different)
        BY <1>5, <1>7, <1>11, Looser, RelBetween
      <3>2. Follows(stream[c], old, Different) /\ Follows(old, stream[c], Different)
        BY <1>2, <2>4 DEF InputInv, Places, old
      <3> QED BY <1>4, <1>5, <1>8, <3>1, <3>2, ConcatFollows
    <2>5. \A c \in 1..opened : Chain(stream'[c], InTurn) /\ Follows(typed, stream'[c], Rel)
      BY <1>8, <2>2, <2>3 DEF InputInv, Places
    <2>6. ASSUME NEW c \in 1..opened, NEW d \in 1..opened, c # d
          PROVE  Follows(stream'[c], stream'[d], Different)
      <3>1. CASE c # writer /\ d # writer
        BY <1>8, <2>6, <3>1 DEF InputInv, Places
      <3>2. CASE c = writer
        BY <1>8, <2>6, <3>2, <2>4
      <3>3. CASE d = writer
        BY <1>8, <2>6, <3>3, <2>4
      <3> QED BY <3>1, <3>2, <3>3
    <2>7. Chain(typed, Rel) /\ (opened = 0 => typed = <<>>)
      BY DEF InputInv, Places
    <2>8. opened' = 0 => typed = <<>>
      BY <1>2, <2>7
    <2>9. typed' = typed /\ opened' = opened
      BY <1>2
    <2>10. Chain(typed, Rel)'
      BY <2>1, <2>7, <2>9 DEF Chain
    <2>11. ASSUME NEW c \in 1..opened
           PROVE  Chain(stream[c], InTurn)' /\ Follows(typed, stream[c], Rel)'
      BY <2>1, <2>5, <2>9, <2>11 DEF Chain, Follows
    <2>12. ASSUME NEW c \in 1..opened, NEW d \in 1..opened, c # d
           PROVE  Follows(stream[c], stream[d], Different)'
      BY <2>1, <2>6, <2>12 DEF Follows
    <2> QED BY <2>8, <2>9, <2>10, <2>11, <2>12 DEF Places
  <1>16. AllArrive'
    <2> SUFFICES ASSUME NEW u \in Typists, NEW n \in 1..received'[u] PROVE Arrived(u, n)'
      BY DEF AllArrive
    <2>1. CASE <<u, n>> = m
      BY <1>2, <1>12, <2>1 DEF Arrived, MessagesIn
    <2>2. CASE <<u, n>> # m
      <3>1. n \in 1..received[u] /\ ~(n = received[u] /\ ipc[u] = "opening" /\ u = t)
        BY <1>1, <1>2, <2>2 DEF InputInv, InputTypes
      <3>2. Arrived(u, n)
        BY <3>1 DEF InputInv, AllArrive
      <3>3. (n = received[u] /\ ipc[u] = "opening") => (n = received'[u] /\ ipc'[u] = "opening")
        BY <1>2, <3>1 DEF InputInv, InputTypes
      <3> QED BY <1>2, <1>13, <3>2, <3>3 DEF Arrived, MessagesIn
    <2> QED BY <2>1, <2>2
  <1>17. CutIsTyped'
    BY <1>2 DEF InputInv, CutIsTyped
  <1> QED BY <1>9, <1>14, <1>15, <1>16, <1>17 DEF InputInv

LEMMA OpenedStep ==
    ASSUME InputInv, NEW t \in Typists, Opened(t)
    PROVE  InputInv'
  <1>1. PICK m : m = <<t, received[t]>>
    OBVIOUS
  <1> DEFINE T == Tokens(m, kind[t])
  <1>2. /\ ipc[t] = "opening" /\ received[t] \in Nat /\ received[t] <= MaxMessages
        /\ kind[t] \in {"key", "size"} /\ opened \in Nat
        /\ opened' = opened + 1 /\ writer' = opened + 1 /\ openers' = openers \cup {t}
        /\ stream' = Append(stream, T) /\ ipc' = [ipc EXCEPT ![t] = "draining"]
        /\ UNCHANGED <<browserMaster, runner, kind, received, typed, applied, cut, dropped>>
    BY <1>1, MessageBound DEF Opened, AtHand, InputInv, InputTypes
  <1>3. m \in Messages /\ m[1] = t /\ m[2] = received[t] /\ received[t] \in 1..MaxMessages
    BY <1>1, <1>2 DEF InputInv, InputTypes, Messages
  <1>4. T \in Seq(Token) /\ MessagesIn(T) = {m} /\ Chain(T, InTurn)
    BY <1>2, <1>3, TokensAre, TokensMessages
  <1>5. /\ stream \in Seq(Seq(Token)) /\ Len(stream) = opened /\ typed \in Seq(Token)
        /\ \A c \in 1..opened : stream[c] \in Seq(Token)
    BY <1>2 DEF InputInv, InputTypes
  <1>6. m \notin Sent /\ received[m[1]] <= m[2]
    BY <1>2, <1>3 DEF Sent
  <1>7. \A s \in Seq(Token) : MessagesIn(s) \subseteq Sent =>
            Follows(s, T, InTurn) /\ Follows(T, s, Different)
    BY <1>2, <1>3, <1>6, NewFollows DEF InputInv
  <1> HIDE DEF T
  <1>8. /\ stream' \in Seq(Seq(Token)) /\ Len(stream') = opened'
        /\ stream'[opened + 1] = T
        /\ \A c \in 1..opened : stream'[c] = stream[c]
        /\ \A c \in 1..opened' : c \in 1..opened \/ c = opened + 1
        /\ opened + 1 \in 1..opened'
    BY <1>2, <1>4, <1>5
  <1>9. InputTypes'
    BY <1>2, <1>8 DEF InputInv, InputTypes
  <1>10. Sent \subseteq Sent' /\ m \in Sent'
    <2>1. ASSUME NEW q \in Messages, q \in Sent PROVE q \in Sent'
      <3>1. q[1] \in Typists /\ q[2] \in Nat /\ received[q[1]] \in Nat
        BY TokenParts, MessageBound DEF InputInv, InputTypes
      <3> QED BY <1>2, <2>1, <3>1 DEF Sent, InputInv, InputTypes
    <2>2. m \in Sent'
      BY <1>2, <1>3, <1>6 DEF Sent, InputInv, InputTypes
    <2> QED BY <2>1, <2>2 DEF Sent
  <1>11. MessagesIn(typed) \subseteq Sent /\ \A c \in 1..opened : MessagesIn(stream[c]) \subseteq Sent
    BY DEF InputInv, Senders
  <1>12. Senders'
    <2>1. ASSUME NEW c \in 1..opened' PROVE MessagesIn(stream'[c]) \subseteq Sent'
      BY <1>4, <1>8, <1>10, <1>11
    <2> QED BY <1>2, <1>10, <1>11, <2>1 DEF Senders, MessagesIn
  <1>13. Places'
    <2>1. InTurn' = InTurn /\ Different' = Different /\ InTurn \subseteq Rel' /\ Rel' \subseteq Different
      BY DEF Rel, InTurn, Different
    <2>2. opened # 0 => Rel \subseteq Rel'
      BY <1>2, RelBetween DEF Rel, Different, InTurn
    <2>3. opened = 0 => typed = <<>>
      BY DEF InputInv, Places
    <2>4. Chain(typed, Rel')
      <3>1. CASE opened = 0
        BY <2>3, <3>1 DEF Chain
      <3>2. CASE opened # 0
        BY <2>2, <3>2, Looser DEF InputInv, Places
      <3> QED BY <3>1, <3>2
    <2>5. ASSUME NEW c \in 1..opened'
          PROVE  Chain(stream'[c], InTurn) /\ Follows(typed, stream'[c], Rel')
      <3>1. CASE c = opened + 1
        <4>1. Follows(typed, T, InTurn)
          BY <1>5, <1>7, <1>11
        <4> QED BY <1>4, <1>8, <2>1, <3>1, <4>1, Looser
      <3>2. CASE c \in 1..opened
        <4>1. Chain(stream[c], InTurn) /\ Follows(typed, stream[c], Rel) /\ opened # 0
          BY <1>2, <3>2 DEF InputInv, Places
        <4> QED BY <1>8, <2>2, <3>2, <4>1, Looser
      <3> QED BY <1>8, <3>1, <3>2
    <2>6. ASSUME NEW c \in 1..opened', NEW d \in 1..opened', c # d
          PROVE  Follows(stream'[c], stream'[d], Different)
      <3>1. CASE c \in 1..opened /\ d \in 1..opened
        BY <1>8, <2>6, <3>1 DEF InputInv, Places
      <3>2. CASE c = opened + 1 /\ d \in 1..opened
        BY <1>5, <1>7, <1>8, <1>11, <3>2
      <3>3. CASE d = opened + 1 /\ c \in 1..opened
        <4>1. Follows(stream[c], T, InTurn)
          BY <1>5, <1>7, <1>11, <3>3
        <4> QED BY <1>8, <3>3, <4>1, Looser, RelBetween
      <3> QED BY <1>8, <2>6, <3>1, <3>2, <3>3
    <2>7. Chain(typed', Rel') /\ (opened' = 0 => typed' = <<>>)
      BY <1>2, <2>4
    <2>8. \A c \in 1..opened' : Chain(stream'[c], InTurn') /\ Follows(typed', stream'[c], Rel')
      BY <1>2, <2>1, <2>5
    <2>9. \A c, d \in 1..opened' : c # d => Follows(stream'[c], stream'[d], Different')
      BY <2>1, <2>6
    <2> QED BY <2>7, <2>8, <2>9 DEF Places, Chain, Follows
  <1>14. AllArrive'
    <2> SUFFICES ASSUME NEW u \in Typists, NEW n \in 1..received'[u] PROVE Arrived(u, n)'
      BY DEF AllArrive
    <2>1. CASE <<u, n>> = m
      BY <1>4, <1>8, <2>1 DEF Arrived, MessagesIn
    <2>2. CASE <<u, n>> # m
      <3>1. n \in 1..received[u] /\ ~(n = received[u] /\ ipc[u] = "opening" /\ u = t)
        BY <1>1, <1>2, <2>2 DEF InputInv, InputTypes
      <3>2. Arrived(u, n)
        BY <3>1 DEF InputInv, AllArrive
      <3>3. (n = received[u] /\ ipc[u] = "opening") => (n = received'[u] /\ ipc'[u] = "opening")
        BY <1>2, <3>1 DEF InputInv, InputTypes
      <3>4. \A c \in 1..opened : c \in 1..opened' /\ stream'[c] = stream[c]
        BY <1>2, <1>8
      <3>5. CASE <<u, n>> \in MessagesIn(typed) \cup applied \cup dropped
        BY <1>2, <3>5 DEF Arrived, MessagesIn
      <3>6. CASE n = received[u] /\ ipc[u] = "opening"
        BY <3>3, <3>6 DEF Arrived
      <3>7. CASE \E c \in 1..opened : <<u, n>> \in MessagesIn(stream[c])
        <4>1. PICK c \in 1..opened : <<u, n>> \in MessagesIn(stream[c])
          BY <3>7
        <4>2. c \in 1..opened' /\ <<u, n>> \in MessagesIn(stream'[c])
          BY <3>4, <4>1
        <4> QED BY <4>2 DEF Arrived, MessagesIn
      <3> QED BY <3>2, <3>5, <3>6, <3>7 DEF Arrived
    <2> QED BY <2>1, <2>2
  <1>15. CutIsTyped'
    BY <1>2 DEF InputInv, CutIsTyped
  <1> QED BY <1>9, <1>12, <1>13, <1>14, <1>15 DEF InputInv

LEMMA ReadStep ==
    ASSUME InputInv, NEW c \in 1..opened, Read(c)
    PROVE  InputInv'
  <1>1. PICK n \in 1..Len(stream[c]) :
           LET chunk == SubSeq(stream[c], 1, n) IN
           /\ typed' = typed \o Outside(chunk, Whole(chunk))
           /\ applied' = applied \cup Whole(chunk)
           /\ cut' = cut \cup Ends(chunk)
           /\ stream' = [stream EXCEPT ![c] = SubSeq(stream[c], n + 1, Len(stream[c]))]
    BY DEF Read
  <1> DEFINE chunk == SubSeq(stream[c], 1, n)
             rest == SubSeq(stream[c], n + 1, Len(stream[c]))
             out == Outside(chunk, Whole(chunk))
  <1>2. /\ stream[c] \in Seq(Token) /\ typed \in Seq(Token) /\ opened \in Nat
        /\ stream \in Seq(Seq(Token)) /\ Len(stream) = opened
    BY DEF InputInv, InputTypes
  <1>3. /\ chunk \in Seq(Token) /\ Len(chunk) = n
        /\ rest \in Seq(Token) /\ Len(rest) = Len(stream[c]) - n
        /\ \A i \in 1..n : chunk[i] = stream[c][i]
        /\ \A i \in 1..(Len(stream[c]) - n) : rest[i] = stream[c][n + i]
    BY <1>2, Cutting
  <1>4. Kept(out, chunk, Whole(chunk), n)
    BY <1>3, OutsideKeeps
  <1>5. /\ typed' = typed \o out /\ applied' = applied \cup Whole(chunk)
        /\ cut' = cut \cup Ends(chunk) /\ stream' = [stream EXCEPT ![c] = rest]
        /\ UNCHANGED <<browserMaster, runner, ipc, kind, received, writer, opened, openers,
                       dropped>>
    BY <1>1 DEF Read
  <1>6. \A R : Chain(chunk, R) => Chain(out, R)
    BY <1>3, OutsideChain
  <1>7. \A R : \A s \in Seq(Token) : /\ Follows(s, chunk, R) => Follows(s, out, R)
                                     /\ Follows(chunk, s, R) => Follows(out, s, R)
    BY <1>3, OutsideFollows
  <1> HIDE DEF chunk, rest, out
  <1>8. out \in Seq(Token) /\ MessagesIn(out) \subseteq MessagesIn(chunk)
    BY <1>3, <1>4 DEF Kept, MessagesIn
  <1>9. /\ MessagesIn(stream[c]) \subseteq MessagesIn(chunk) \cup MessagesIn(rest)
        /\ MessagesIn(chunk) \subseteq MessagesIn(stream[c])
        /\ MessagesIn(rest) \subseteq MessagesIn(stream[c])
    <2>1. ASSUME NEW i \in 1..Len(stream[c])
          PROVE  stream[c][i].m \in MessagesIn(chunk) \cup MessagesIn(rest)
      <3>1. CASE i \in 1..n
        BY <1>3, <3>1 DEF MessagesIn
      <3>2. CASE i - n \in 1..(Len(stream[c]) - n)
        <4>1. rest[i - n] = stream[c][n + (i - n)] /\ n + (i - n) = i /\ i - n \in 1..Len(rest)
          BY <1>3, <3>2
        <4> QED BY <4>1 DEF MessagesIn
      <3> QED BY <1>2, <3>1, <3>2
    <2>2. \A i \in 1..Len(chunk) : i \in 1..Len(stream[c]) /\ chunk[i].m = stream[c][i].m
      BY <1>2, <1>3
    <2>3. \A i \in 1..Len(rest) : n + i \in 1..Len(stream[c]) /\ rest[i].m = stream[c][n + i].m
      BY <1>2, <1>3
    <2>4. MessagesIn(stream[c]) \subseteq MessagesIn(chunk) \cup MessagesIn(rest)
      BY <2>1 DEF MessagesIn
    <2>5. MessagesIn(chunk) \subseteq MessagesIn(stream[c])
      BY <2>2 DEF MessagesIn
    <2>6. MessagesIn(rest) \subseteq MessagesIn(stream[c])
      BY <2>3 DEF MessagesIn
    <2> QED BY <2>4, <2>5, <2>6
  <1>10. MessagesIn(chunk) \subseteq MessagesIn(out) \cup Whole(chunk)
    <2>1. ASSUME NEW b \in 1..Len(chunk)
          PROVE  chunk[b].m \in MessagesIn(out) \cup Whole(chunk)
      <3>1. CASE chunk[b].m \in Whole(chunk)
        BY <3>1
      <3>2. CASE chunk[b].m \notin Whole(chunk)
        <4>1. PICK a \in 1..Len(out) : out[a] = chunk[b]
          BY <1>3, <1>4, <3>2 DEF Kept
        <4>2. chunk[b].m \in MessagesIn(out)
          BY <4>1 DEF MessagesIn
        <4> QED BY <4>2
      <3> QED BY <3>1, <3>2
    <2> QED BY <2>1 DEF MessagesIn
  <1>11. MessagesIn(typed') = MessagesIn(typed) \cup MessagesIn(out)
    BY <1>2, <1>5, <1>8, ConcatMessages
  <1>12. /\ stream' \in Seq(Seq(Token)) /\ Len(stream') = opened /\ stream'[c] = rest
         /\ \A d \in 1..opened : d # c => stream'[d] = stream[d]
    BY <1>2, <1>3, <1>5
  <1>13. Whole(chunk) \subseteq Messages /\ Ends(chunk) \subseteq Messages
    <2>1. \A i \in 1..Len(chunk) : chunk[i].m \in Messages
      BY <1>3, TokenParts
    <2>2. 1..(Len(chunk) - 1) \subseteq 1..Len(chunk)
      BY <1>3
    <2> QED BY <2>1, <2>2 DEF Whole, Ends
  <1>14. InputTypes'
    <2>1. typed' \in Seq(Token)
      BY <1>2, <1>5, <1>8, ConcatHas
    <2> QED BY <1>5, <1>12, <1>13, <2>1 DEF InputInv, InputTypes
  <1>15. Senders'
    <2>1. Sent' = Sent
      BY <1>5 DEF Sent
    <2>2. MessagesIn(typed') \subseteq Sent /\ \A d \in 1..opened : MessagesIn(stream'[d]) \subseteq Sent
      BY <1>8, <1>9, <1>11, <1>12 DEF InputInv, Senders
    <2> QED BY <1>5, <2>1, <2>2 DEF Senders, MessagesIn
  <1>16. Places'
    <2>1. Rel' = Rel /\ InTurn' = InTurn /\ Different' = Different
      BY <1>5 DEF Rel, InTurn, Different
    <2>2. /\ Chain(typed, Rel) /\ Chain(stream[c], InTurn) /\ Follows(typed, stream[c], Rel)
          /\ \A d \in 1..opened : d # c => Follows(stream[c], stream[d], Different)
                                           /\ Follows(stream[d], stream[c], Different)
      BY DEF InputInv, Places
    <2>3. ASSUME NEW R, Chain(stream[c], R)
          PROVE  Chain(chunk, R) /\ Chain(rest, R) /\ Follows(chunk, rest, R)
      <3>1. \A i \in 1..Len(chunk) : i \in 1..Len(stream[c]) /\ chunk[i] = stream[c][i]
        BY <1>2, <1>3
      <3>2. \A i \in 1..Len(rest) : n + i \in 1..Len(stream[c]) /\ rest[i] = stream[c][n + i]
        BY <1>2, <1>3
      <3>3. \A i, j \in 1..Len(rest) : i < j => n + i < n + j
        BY <1>3
      <3>4. \A i \in 1..Len(chunk), j \in 1..Len(rest) : i < n + j
        BY <1>3
      <3>5. Chain(chunk, R)
        BY <2>3, <3>1 DEF Chain
      <3>6. Chain(rest, R)
        BY <2>3, <3>2, <3>3 DEF Chain
      <3>7. Follows(chunk, rest, R)
        BY <2>3, <3>1, <3>2, <3>4 DEF Chain, Follows
      <3> QED BY <3>5, <3>6, <3>7
    <2>4. ASSUME NEW s, NEW R
          PROVE  /\ Follows(s, stream[c], R) => Follows(s, chunk, R) /\ Follows(s, rest, R)
                 /\ Follows(stream[c], s, R) => Follows(chunk, s, R) /\ Follows(rest, s, R)
      <3>1. \A i \in 1..Len(chunk) : i \in 1..Len(stream[c]) /\ chunk[i] = stream[c][i]
        BY <1>2, <1>3
      <3>2. \A i \in 1..Len(rest) : n + i \in 1..Len(stream[c]) /\ rest[i] = stream[c][n + i]
        BY <1>2, <1>3
      <3> QED BY <3>1, <3>2 DEF Follows
    <2>5. Chain(out, InTurn) /\ Chain(rest, InTurn) /\ Follows(out, rest, InTurn)
      BY <1>3, <1>6, <1>7, <2>2, <2>3
    <2>6. Follows(typed, out, Rel) /\ Follows(typed, rest, Rel)
      BY <1>2, <1>7, <2>2, <2>4
    <2>7. Chain(out, Rel) /\ Follows(out, rest, Rel)
      BY <2>5, Looser, RelBetween
    <2>8. Chain(typed', Rel')
      BY <1>2, <1>5, <1>8, <2>1, <2>2, <2>6, <2>7, ConcatChain
    <2>9. Follows(typed', rest, Rel)
      BY <1>2, <1>3, <1>5, <1>8, <2>6, <2>7, ConcatFollows
    <2>10. ASSUME NEW d \in 1..opened, d # c
           PROVE  /\ Follows(typed', stream[d], Rel)
                  /\ Follows(rest, stream[d], Different) /\ Follows(stream[d], rest, Different)
      <3>1. stream[d] \in Seq(Token) /\ Follows(typed, stream[d], Rel)
        BY <1>2 DEF InputInv, Places
      <3>2. Follows(stream[c], stream[d], Different) /\ Follows(stream[d], stream[c], Different)
        BY <2>2, <2>10
      <3>3. Rel = Different
        BY <1>2, <2>10 DEF Rel
      <3>4. Follows(out, stream[d], Rel)
        BY <1>7, <2>4, <3>1, <3>2, <3>3
      <3>5. Follows(typed', stream[d], Rel)
        BY <1>2, <1>5, <1>8, <3>1, <3>4, ConcatFollows
      <3> QED BY <2>4, <3>2, <3>5
    <2>11. \A d \in 1..opened' : Chain(stream'[d], InTurn') /\ Follows(typed', stream'[d], Rel')
      <3>1. ASSUME NEW d \in 1..opened
            PROVE  Chain(stream'[d], InTurn) /\ Follows(typed', stream'[d], Rel)
        BY <1>12, <2>5, <2>9, <2>10 DEF InputInv, Places
      <3> QED BY <1>5, <2>1, <3>1
    <2>12. \A d, e \in 1..opened' : d # e => Follows(stream'[d], stream'[e], Different')
      <3>1. ASSUME NEW d \in 1..opened, NEW e \in 1..opened, d # e
            PROVE  Follows(stream'[d], stream'[e], Different)
        <4>1. CASE d # c /\ e # c
          BY <1>12, <3>1, <4>1 DEF InputInv, Places
        <4>2. CASE d = c
          BY <1>12, <2>10, <3>1, <4>2
        <4>3. CASE e = c
          BY <1>12, <2>10, <3>1, <4>3
        <4> QED BY <4>1, <4>2, <4>3
      <3> QED BY <1>5, <2>1, <3>1
    <2>13. opened' = 0 => typed' = <<>>
      BY <1>2, <1>5
    <2> QED BY <2>8, <2>11, <2>12, <2>13 DEF Places, Chain, Follows
  <1>17. AllArrive'
    <2> SUFFICES ASSUME NEW u \in Typists, NEW q \in 1..received'[u] PROVE Arrived(u, q)'
      BY DEF AllArrive
    <2>1. Arrived(u, q)
      BY <1>5 DEF InputInv, AllArrive
    <2>2. CASE <<u, q>> \in MessagesIn(typed) \cup applied \cup dropped
      BY <1>5, <1>11, <2>2 DEF Arrived, MessagesIn
    <2>3. CASE q = received[u] /\ ipc[u] = "opening"
      BY <1>5, <2>3 DEF Arrived
    <2>4. CASE \E d \in 1..opened : <<u, q>> \in MessagesIn(stream[d])
      <3>1. PICK d \in 1..opened : <<u, q>> \in MessagesIn(stream[d])
        BY <2>4
      <3>2. CASE d # c
        <4>1. d \in 1..opened' /\ <<u, q>> \in MessagesIn(stream'[d])
          BY <1>5, <1>12, <3>1, <3>2
        <4> QED BY <4>1 DEF Arrived, MessagesIn
      <3>3. CASE d = c
        <4>1. <<u, q>> \in MessagesIn(out) \/ <<u, q>> \in Whole(chunk) \/ <<u, q>> \in MessagesIn(rest)
          BY <1>9, <1>10, <3>1, <3>3
        <4>2. CASE <<u, q>> \in MessagesIn(out)
          <5>1. <<u, q>> \in MessagesIn(typed')
            BY <1>11, <4>2
          <5> QED BY <5>1 DEF Arrived, MessagesIn
        <4>3. CASE <<u, q>> \in Whole(chunk)
          BY <1>5, <4>3 DEF Arrived
        <4>4. CASE <<u, q>> \in MessagesIn(rest)
          <5>1. c \in 1..opened' /\ <<u, q>> \in MessagesIn(stream'[c])
            BY <1>5, <1>12, <4>4
          <5> QED BY <5>1 DEF Arrived, MessagesIn
        <4> QED BY <4>1, <4>2, <4>3, <4>4
      <3> QED BY <3>2, <3>3
    <2> QED BY <2>1, <2>2, <2>3, <2>4 DEF Arrived
  <1>18. CutIsTyped'
    <2>1. ASSUME NEW i \in 1..Len(out), out[i].part # "key" PROVE out[i].m \in Ends(chunk)
      <3>1. PICK b \in 1..Len(chunk) : out[i] = chunk[b] /\ chunk[b].m \notin Whole(chunk)
        BY <1>3, <1>4 DEF Kept
      <3> QED BY <2>1, <3>1 DEF Ends
    <2>2. ASSUME NEW i \in 1..Len(typed \o out), (typed \o out)[i].part # "key"
          PROVE  (typed \o out)[i].m \in cut \cup Ends(chunk)
      <3>1. CASE i \in 1..Len(typed) /\ (typed \o out)[i] = typed[i]
        BY <2>2, <3>1 DEF InputInv, CutIsTyped
      <3>2. CASE i - Len(typed) \in 1..Len(out) /\ (typed \o out)[i] = out[i - Len(typed)]
        BY <2>1, <2>2, <3>2
      <3> QED BY <1>2, <1>8, <3>1, <3>2, ConcatIndex
    <2> QED BY <1>5, <2>2 DEF CutIsTyped
  <1> QED BY <1>14, <1>15, <1>16, <1>17, <1>18 DEF InputInv

LEMMA InputStart == InputInit => InputInv
  <1> SUFFICES ASSUME InputInit PROVE InputInv
    OBVIOUS
  <1>1. /\ Len(<<>>) = 0 /\ <<>> \in Seq(Token) /\ <<>> \in Seq(Seq(Token)) /\ 1..0 = {}
        /\ 0 \in 0..MaxMessages
    BY MessageBound
  <1>2. InputTypes
    BY <1>1 DEF InputInit, InputTypes
  <1>3. Senders /\ Places /\ AllArrive /\ CutIsTyped
    BY <1>1 DEF InputInit, Senders, Places, AllArrive, CutIsTyped, MessagesIn, Chain
  <1> QED BY <1>2, <1>3 DEF InputInv

\* The other steps of the server.
LEMMA OtherServerStep ==
    ASSUME InputInv, NEW t \in Typists, NEW k \in {"key", "size"},
           NoSocket(t, k) \/ BeginOpen(t, k) \/ Ignore(t) \/ OpenFails(t) \/ Drained(t)
    PROVE  InputInv'
  <1> USE MessageBound
  <1>1. InputTypes /\ received[t] \in 0..MaxMessages
    BY DEF InputInv, InputTypes
  <1>2. ASSUME \/ NoSocket(t, k) \/ Ignore(t)
        PROVE  InputInv'
    <2>1. PICK m : m = <<t, received[t] + 1>>
      OBVIOUS
    <2>2. /\ ipc[t] = "idle" /\ received[t] < MaxMessages /\ dropped' = dropped \cup {m}
          /\ received' = [received EXCEPT ![t] = received[t] + 1]
          /\ kind' \in [Typists -> {"key", "size"}] /\ m \in Messages
          /\ UNCHANGED <<browserMaster, runner, ipc, writer, opened, openers, stream, typed,
                         applied, cut>>
      <3>1. /\ ipc[t] = "idle" /\ received[t] < MaxMessages
            /\ received' = [received EXCEPT ![t] = received[t] + 1]
            /\ kind' \in [Typists -> {"key", "size"}]
            /\ UNCHANGED <<browserMaster, runner, ipc, writer, opened, openers, stream, typed,
                           applied, cut>>
            /\ dropped' = dropped \cup {AtHand(t)'}
        BY <1>1, <1>2 DEF NoSocket, Ignore, Taken, Receive, InputTypes
      <3>2. AtHand(t)' = m
        BY <1>1, <2>1, <3>1 DEF AtHand, InputTypes
      <3>3. m \in Messages
        BY <1>1, <2>1, <3>1 DEF Messages
      <3> QED BY <3>1, <3>2, <3>3
    <2>3. InputTypes'
      BY <1>1, <2>2 DEF InputTypes
    <2>4. Sent \subseteq Sent'
      <3>1. ASSUME NEW q \in Messages, q \in Sent PROVE q \in Sent'
        <4>1. q[1] \in Typists /\ q[2] \in Nat /\ received[q[1]] \in Nat
          BY <1>1, TokenParts DEF InputTypes
        <4> QED BY <1>1, <2>2, <3>1, <4>1 DEF Sent, InputTypes
      <3> QED BY <3>1 DEF Sent
    <2>5. ASSUME NEW u \in Typists, NEW n \in 1..received'[u]
          PROVE  \/ n \in 1..received[u] /\ ~(n = received[u] /\ ipc[u] = "opening")
                 \/ <<u, n>> \in dropped'
                 \/ n = received'[u] /\ ipc'[u] = "opening"
      BY <1>1, <2>1, <2>2 DEF InputTypes
    <2> QED BY <2>2, <2>3, <2>4, <2>5, QuietStep
  <1>3. ASSUME BeginOpen(t, k)
        PROVE  InputInv'
    <2>1. /\ ipc[t] = "idle" /\ received[t] < MaxMessages
          /\ received' = [received EXCEPT ![t] = received[t] + 1]
          /\ ipc' = [ipc EXCEPT ![t] = "opening"]
          /\ kind' \in [Typists -> {"key", "size"}]
          /\ UNCHANGED <<browserMaster, runner, writer, opened, openers, stream, typed,
                         applied, cut, dropped>>
      BY <1>1, <1>3 DEF BeginOpen, Taken, Receive, InputTypes
    <2>2. InputTypes'
      BY <1>1, <2>1 DEF InputTypes
    <2>3. Sent \subseteq Sent'
      <3>1. ASSUME NEW q \in Messages, q \in Sent PROVE q \in Sent'
        <4>1. q[1] \in Typists /\ q[2] \in Nat /\ received[q[1]] \in Nat
          BY <1>1, TokenParts DEF InputTypes
        <4> QED BY <1>1, <2>1, <3>1, <4>1 DEF Sent, InputTypes
      <3> QED BY <3>1 DEF Sent
    <2>4. ASSUME NEW u \in Typists, NEW n \in 1..received'[u]
          PROVE  \/ n \in 1..received[u] /\ ~(n = received[u] /\ ipc[u] = "opening")
                 \/ <<u, n>> \in dropped'
                 \/ n = received'[u] /\ ipc'[u] = "opening"
      BY <1>1, <2>1 DEF InputTypes
    <2> QED BY <2>1, <2>2, <2>3, <2>4, QuietStep
  <1>4. ASSUME OpenFails(t) \/ Drained(t)
        PROVE  InputInv'
    <2>1. /\ received' = received /\ \A u \in Typists : ipc'[u] \in {ipc[u], "idle"}
          /\ ipc' \in [Typists -> {"idle", "opening", "draining"}]
          /\ \A u \in Typists : ipc'[u] = ipc[u] \/ (u = t /\ ipc[u] = "draining")
                                \/ <<u, received[u]>> \in dropped'
          /\ dropped \subseteq dropped' /\ dropped' \subseteq Messages /\ writer' \in 0..opened
          /\ UNCHANGED <<browserMaster, runner, kind, opened, openers, stream, typed, applied,
                         cut>>
      <3>1. ipc[t] = "opening" => <<t, received[t]>> \in Messages
        BY <1>1 DEF InputTypes, Messages
      <3>2. CASE OpenFails(t)
        BY <1>1, <3>1, <3>2 DEF OpenFails, AtHand, InputTypes
      <3>3. CASE Drained(t)
        BY <1>1, <3>3 DEF Drained, InputTypes
      <3> QED BY <1>4, <3>2, <3>3
    <2>2. InputTypes'
      BY <1>1, <2>1 DEF InputTypes
    <2>3. Sent \subseteq Sent'
      <3>1. ASSUME NEW q \in Messages, q \in Sent PROVE q \in Sent'
        BY <2>1, <3>1, TokenParts DEF Sent
      <3> QED BY <3>1 DEF Sent
    <2>4. ASSUME NEW u \in Typists, NEW n \in 1..received'[u]
          PROVE  \/ n \in 1..received[u] /\ ~(n = received[u] /\ ipc[u] = "opening")
                 \/ <<u, n>> \in dropped'
                 \/ n = received'[u] /\ ipc'[u] = "opening"
      BY <1>1, <2>1 DEF InputTypes
    <2> QED BY <2>1, <2>2, <2>3, <2>4, QuietStep
  <1> QED BY <1>2, <1>3, <1>4

\* The steps at which no message moves.
LEMMA IdleStep ==
    ASSUME InputInv, Listen \/ EndRun \/ ForgetWriter \/ UNCHANGED inputVars
    PROVE  InputInv'
  <1>1. /\ UNCHANGED <<browserMaster, ipc, kind, received, opened, openers, stream, typed,
                       applied, cut, dropped>>
        /\ runner' \in {runner, "listening", "over"} /\ writer' \in {writer, 0}
    BY DEF Listen, EndRun, ForgetWriter, inputVars
  <1>2. InputTypes'
    BY <1>1 DEF InputInv, InputTypes
  <1>3. Sent' = Sent
    BY <1>1 DEF Sent
  <1>4. \A t \in Typists : \A n \in 1..received'[t] :
            \/ n \in 1..received[t] /\ ~(n = received[t] /\ ipc[t] = "opening")
            \/ <<t, n>> \in dropped'
            \/ n = received'[t] /\ ipc'[t] = "opening"
    BY <1>1
  <1> QED BY <1>1, <1>2, <1>3, <1>4, QuietStep

LEMMA InputInvariant == InputSpec => []InputInv
  <1>1. InputInit => InputInv
    BY InputStart
  <1>2. InputInv /\ [InputNext]_inputVars => InputInv'
    <2> SUFFICES ASSUME InputInv, [InputNext]_inputVars PROVE InputInv'
      OBVIOUS
    <2>1. ASSUME NEW t \in Typists, NEW k \in {"key", "size"},
                 WriteCached(t, k) \/ NoSocket(t, k) \/ BeginOpen(t, k)
          PROVE  InputInv'
      BY <2>1, CachedStep, OtherServerStep
    <2>2. ASSUME NEW t \in Typists, Ignore(t) \/ Opened(t) \/ OpenFails(t) \/ Drained(t)
          PROVE  InputInv'
      BY <2>2, OpenedStep, OtherServerStep
    <2>3. ASSUME NEW c \in 1..opened, Read(c) PROVE InputInv'
      BY <2>3, ReadStep
    <2>4. CASE Listen \/ EndRun \/ ForgetWriter \/ UNCHANGED inputVars
      BY <2>4, IdleStep
    <2> QED BY <2>1, <2>2, <2>3, <2>4 DEF InputNext, ServerStep, RunnerStep
  <1> QED BY <1>1, <1>2, PTL DEF InputSpec

\* What the runner and the server keep of the input has its type.
THEOREM InputTypeCorrect == InputSpec => []InputTypeOK
  <1>1. InputInv => InputTypeOK
    <2> SUFFICES ASSUME InputInv PROVE InputTypeOK
      OBVIOUS
    <2>1. stream \in [1..opened -> Seq(Token)]
      BY DEF InputInv, InputTypes
    <2> QED BY <2>1 DEF InputInv, InputTypes, InputTypeOK
  <1> QED BY <1>1, InputInvariant, PTL

\* No message of a tab is lost without a trace, typed twice or torn, and the keys of
\* a tab stay in order on a single connection (_recv_input, _make_input_handler).
THEOREM InputAlwaysArrives == InputSpec => []InputArrives
  <1>1. InputInv => InputArrives
    <2> SUFFICES ASSUME InputInv PROVE InputArrives
      OBVIOUS
    <2>1. \A t \in Typists : \A n \in 1..received[t] :
            \/ <<t, n>> \in MessagesIn(typed) \cup applied \cup dropped
            \/ n = received[t] /\ ipc[t] = "opening"
            \/ \E c \in 1..opened : <<t, n>> \in MessagesIn(stream[c])
      BY DEF InputInv, AllArrive, Arrived
    <2>2. ASSUME NEW i \in 1..Len(typed), NEW j \in 1..Len(typed), i < j
          PROVE  /\ typed[i] # typed[j]
                 /\ typed[i].m[1] = typed[j].m[1] /\ opened <= 1 => typed[i].m[2] <= typed[j].m[2]
      <3>1. <<typed[i], typed[j]>> \in Rel
        BY <2>2 DEF InputInv, Places, Chain
      <3> QED BY <3>1 DEF Rel, InTurn, Different
    <2>3. \A i \in 1..Len(typed) : typed[i].part # "key" => typed[i].m \in cut
      BY DEF InputInv, CutIsTyped
    <2> QED BY <2>1, <2>2, <2>3 DEF InputArrives
  <1> QED BY <1>1, InputInvariant, PTL
=============================================================================
