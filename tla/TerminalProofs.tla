-------------------------- MODULE TerminalProofs --------------------------
(* Proofs about TerminalFeed and TerminalSize, for any number of tabs and rows. *)
EXTENDS TerminalFeed, TerminalSize, SequenceTheorems, FiniteSetTheorems, TLAPS

-----------------------------------------------------------------------------
(* TerminalFeed.                                                           *)

\* What a terminal shows is in order and owned, and nothing of it is beyond the
\* position from which the handler goes on, which is itself one of its rows.
FeedInv ==
    \A t \in Tabs :
        /\ pos[t] \in Own(t) \cup {0}
        /\ \A i \in 1..Len(screen[t]) : screen[t][i] \in Own(t) /\ screen[t][i] <= pos[t]
        /\ \A i, j \in 1..Len(screen[t]) : i < j => screen[t][i] < screen[t][j]

LEMMA InitType == Init => FeedTypeOK
  BY RowBound DEF Init, FeedTypeOK, Ids, Serving

LEMMA OwnIds == ASSUME FeedTypeOK, NEW t \in Tabs PROVE Own(t) \subseteq 1..MaxRows
  <1>1. Len(log) \in Nat /\ Len(log) <= MaxRows
    BY LenProperties DEF FeedTypeOK
  <1> QED
    BY <1>1, RowBound DEF Own

LEMMA StepType == ASSUME FeedTypeOK, [Next]_vars PROVE FeedTypeOK'
  <1> USE DEF Serving, Ids
  <1>1. ASSUME NEW s \in Sandboxes, AppendRow(s) PROVE FeedTypeOK'
    <2>1. log' \in Seq(Sandboxes) /\ Len(log') = Len(log) + 1
      BY <1>1, AppendProperties DEF AppendRow, FeedTypeOK
    <2>2. Len(log) \in Nat
      BY LenProperties DEF FeedTypeOK
    <2>3. Len(log') <= MaxRows
      BY <1>1, <2>1, <2>2, RowBound DEF AppendRow
    <2> QED
      BY <1>1, <2>1, <2>3 DEF AppendRow, FeedTypeOK
  <1>2. ASSUME NEW t \in Tabs, NEW s \in Sandboxes, Connect(t, s) PROVE FeedTypeOK'
    BY <1>2, RowBound DEF Connect, FeedTypeOK
  <1>3. ASSUME NEW t \in Tabs, ReadLog(t) PROVE FeedTypeOK'
    <2>1. Len(log) \in 0..MaxRows
      BY LenProperties, RowBound DEF FeedTypeOK
    <2> QED
      BY <1>3, <2>1 DEF ReadLog, FeedTypeOK
  <1>4. ASSUME NEW t \in Tabs, Send(t) PROVE FeedTypeOK'
    <2>1. PICK i \in Unsent(t) : /\ screen' = [screen EXCEPT ![t] = Append(@, i)]
                                 /\ pos' = [pos EXCEPT ![t] = i]
      BY <1>4 DEF Send
    <2>2. i \in 1..MaxRows
      BY OwnIds DEF Unsent
    <2>3. Append(screen[t], i) \in Seq(1..MaxRows)
      BY <2>2, AppendProperties DEF FeedTypeOK
    <2> QED
      BY <1>4, <2>1, <2>2, <2>3, RowBound DEF Send, FeedTypeOK
  <1>5. ASSUME NEW t \in Tabs, ReadLastId(t) PROVE FeedTypeOK'
    <2>1. PICK last \in Own(t) \cup {0} : pos' = [pos EXCEPT ![t] = last]
      BY <1>5 DEF ReadLastId
    <2>2. last \in 0..MaxRows
      BY <2>1, OwnIds, RowBound
    <2> QED
      BY <1>5, <2>1, <2>2 DEF ReadLastId, FeedTypeOK
  <1>6. ASSUME NEW t \in Tabs, Poll(t) PROVE FeedTypeOK'
    <2>1. PICK last \in Fresh(t) : upto' = [upto EXCEPT ![t] = last]
      BY <1>6 DEF Poll
    <2>2. last \in 0..MaxRows
      BY <2>1, OwnIds, RowBound DEF Fresh
    <2> QED
      BY <1>6, <2>1, <2>2 DEF Poll, FeedTypeOK
  <1>7. ASSUME NEW t \in Tabs, EndBatch(t) \/ PollDies(t) \/ Disconnect(t) PROVE FeedTypeOK'
    BY <1>7 DEF EndBatch, PollDies, Disconnect, FeedTypeOK
  <1>8. ASSUME UNCHANGED vars PROVE FeedTypeOK'
    BY <1>8 DEF vars, FeedTypeOK
  <1> QED
    BY <1>1, <1>2, <1>3, <1>4, <1>5, <1>6, <1>7, <1>8 DEF Next, Handler

\* Every variable of the feed has its type in every reachable state.
THEOREM FeedTyped == Spec => []FeedTypeOK
  BY InitType, StepType, PTL DEF Spec

-----------------------------------------------------------------------------
LEMMA InitInv == Init => FeedInv
  BY DEF Init, FeedInv

\* A step that leaves a tab's terminal and position alone, and takes no row away.
LEMMA OthersKeep ==
    ASSUME FeedTypeOK, FeedInv, NEW t \in Tabs, Own(t) \subseteq Own(t)',
           UNCHANGED <<screen[t], pos[t]>>
    PROVE  /\ pos'[t] \in Own(t)' \cup {0}
           /\ \A i \in 1..Len(screen'[t]) :
                  screen'[t][i] \in Own(t)' /\ screen'[t][i] <= pos'[t]
           /\ \A i, j \in 1..Len(screen'[t]) : i < j => screen'[t][i] < screen'[t][j]
  BY DEF FeedInv

LEMMA StepInv == ASSUME FeedTypeOK, FeedInv, [Next]_vars PROVE FeedInv'
  <1>1. ASSUME NEW s \in Sandboxes, AppendRow(s) PROVE FeedInv'
    <2>1. /\ Len(log') = Len(log) + 1 /\ Len(log) \in Nat
          /\ \A i \in 1..Len(log) : log'[i] = log[i]
      BY <1>1, AppendProperties, LenProperties DEF AppendRow, FeedTypeOK
    <2>2. \A t \in Tabs : Own(t) \subseteq Own(t)'
      BY <1>1, <2>1 DEF AppendRow, Own
    <2>3. UNCHANGED <<screen, pos>>
      BY <1>1 DEF AppendRow
    <2> QED
      BY <2>2, <2>3, OthersKeep DEF FeedInv
  <1>2. ASSUME NEW t \in Tabs, NEW s \in Sandboxes, Connect(t, s) PROVE FeedInv'
    <2>1. pos'[t] = 0 /\ screen'[t] = <<>>
      BY <1>2 DEF Connect, FeedTypeOK
    <2>2. \A u \in Tabs \ {t} : Own(u)' = Own(u) /\ UNCHANGED <<screen[u], pos[u]>>
      BY <1>2 DEF Connect, Own, FeedTypeOK
    <2> QED
      BY <2>1, <2>2, OthersKeep DEF FeedInv
  <1>3. ASSUME NEW t \in Tabs, ReadLog(t) \/ Poll(t) \/ EndBatch(t) \/ PollDies(t) \/ Disconnect(t)
        PROVE  FeedInv'
    <2>1. UNCHANGED <<log, shows, screen, pos>>
      BY <1>3 DEF ReadLog, Poll, EndBatch, PollDies, Disconnect
    <2> QED
      BY <2>1 DEF FeedInv, Own
  <1>4. ASSUME NEW t \in Tabs, Send(t) PROVE FeedInv'
    <2>1. PICK i \in Unsent(t) : /\ screen' = [screen EXCEPT ![t] = Append(@, i)]
                                 /\ pos' = [pos EXCEPT ![t] = i]
      BY <1>4 DEF Send
    <2>2. \A u \in Tabs : Own(u)' = Own(u)
      BY <1>4 DEF Send, Own
    <2>3. i \in Own(t) /\ i \in 1..MaxRows /\ pos[t] \in 0..MaxRows /\ pos[t] < i
      BY OwnIds DEF Unsent, FeedTypeOK, Ids
    <2>4. pos'[t] = i /\ screen'[t] = Append(screen[t], i)
      BY <2>1 DEF FeedTypeOK
    <2>5. /\ Len(screen[t]) \in Nat /\ Len(screen'[t]) = Len(screen[t]) + 1
          /\ \A n \in 1..Len(screen[t]) : screen'[t][n] = screen[t][n]
          /\ \A n \in 1..Len(screen[t]) : screen[t][n] \in 1..MaxRows
          /\ screen'[t][Len(screen[t]) + 1] = i
      <3>1. screen[t] \in Seq(1..MaxRows)
        BY DEF FeedTypeOK
      <3>2. \A n \in 1..Len(screen[t]) : screen[t][n] \in 1..MaxRows
        BY <3>1, ElementOfSeq
      <3>3. i \in 1..MaxRows /\ screen'[t] = Append(screen[t], i)
        BY <2>3, <2>4
      <3>4. /\ Len(screen[t]) \in Nat
            /\ Len(Append(screen[t], i)) = Len(screen[t]) + 1
            /\ \A n \in 1..Len(screen[t]) : Append(screen[t], i)[n] = screen[t][n]
            /\ Append(screen[t], i)[Len(screen[t]) + 1] = i
        BY <3>1, <3>3, AppendProperties, LenProperties
      <3> QED
        BY <3>2, <3>3, <3>4
    <2>6. \A n \in 1..Len(screen'[t]) : n \in 1..Len(screen[t]) \/ n = Len(screen[t]) + 1
      BY <2>5
    <2>7. \A n \in 1..Len(screen[t]) :
              screen[t][n] \in Own(t) /\ screen[t][n] <= pos[t] /\ screen[t][n] < i
      BY <2>3, <2>5, RowBound DEF FeedInv
    <2>8. \A n \in 1..Len(screen'[t]) : screen'[t][n] \in Own(t) /\ screen'[t][n] <= i
      <3> TAKE n \in 1..Len(screen'[t])
      <3>1. CASE n \in 1..Len(screen[t])
        BY <2>5, <2>7, <3>1, <2>3, RowBound
      <3>2. CASE n = Len(screen[t]) + 1
        BY <2>3, <2>5, <3>2, RowBound
      <3> QED
        BY <2>6, <3>1, <3>2
    <2>9. \A m, n \in 1..Len(screen'[t]) : m < n => screen'[t][m] < screen'[t][n]
      <3> SUFFICES ASSUME NEW m \in 1..Len(screen'[t]), NEW n \in 1..Len(screen'[t]), m < n
                   PROVE  screen'[t][m] < screen'[t][n]
        OBVIOUS
      <3>1. m \in 1..Len(screen[t])
        BY <2>5
      <3>2. CASE n \in 1..Len(screen[t])
        BY <2>5, <3>1, <3>2 DEF FeedInv
      <3>3. CASE n = Len(screen[t]) + 1
        BY <2>5, <2>7, <3>1, <3>3
      <3> QED
        BY <2>6, <3>2, <3>3
    <2>10. \A u \in Tabs \ {t} : UNCHANGED <<screen[u], pos[u]>>
      BY <2>1 DEF FeedTypeOK
    <2> QED
      BY <2>2, <2>3, <2>4, <2>8, <2>9, <2>10, OthersKeep DEF FeedInv
  <1>5. ASSUME NEW t \in Tabs, ReadLastId(t) PROVE FeedInv'
    <2>1. PICK last \in Own(t) \cup {0} : /\ \A i \in Own(t) : i <= last
                                          /\ pos' = [pos EXCEPT ![t] = last]
      BY <1>5 DEF ReadLastId
    <2>2. UNCHANGED <<log, shows, screen>> /\ \A u \in Tabs : Own(u)' = Own(u)
      BY <1>5 DEF ReadLastId, Own
    <2>3. pos'[t] = last /\ \A u \in Tabs \ {t} : pos'[u] = pos[u]
      BY <2>1 DEF FeedTypeOK
    <2>4. \A i \in 1..Len(screen[t]) : screen[t][i] <= last
      BY <2>1 DEF FeedInv
    <2> QED
      BY <2>1, <2>2, <2>3, <2>4, OthersKeep DEF FeedInv
  <1>6. ASSUME UNCHANGED vars PROVE FeedInv'
    BY <1>6 DEF vars, FeedInv, Own
  <1> QED
    BY <1>1, <1>2, <1>3, <1>4, <1>5, <1>6 DEF Next, Handler

\* Chunks are shown in order, once, and in their own sandbox's terminal, for every
\* interleaving of the runner's appends with the handler's three queries.
THEOREM FeedOrdered == Spec => []OrderedOnce
  <1>1. FeedInv => OrderedOnce
    BY DEF FeedInv, OrderedOnce
  <1> QED
    BY <1>1, InitInv, StepInv, FeedTyped, PTL DEF Spec

-----------------------------------------------------------------------------
(* TerminalSize: the list of sockets.                                      *)

TypeWindow == window \in Sizes /\ size \in Sizes /\ posts \subseteq Resizes
TypeWpc == wpc \in [Sockets -> Stages]
TypeRegistered == registered \subseteq Sockets
TypeShown == shown \in [Sockets -> Sizes]
TypeAt == at \in [Resizes -> {NotBegun, Done} \cup Sockets]
TypeDead == dead \in [Resizes -> SUBSET Sockets]
TypeDisturbed == disturbed \in BOOLEAN

SizeTypes == /\ TypeWindow /\ TypeWpc /\ TypeRegistered /\ TypeShown /\ TypeAt
             /\ TypeDead /\ TypeDisturbed

\* FS_Subset in the form in which it is used here.
LEMMA SubsetSize ==
    ASSUME NEW S, IsFiniteSet(S), NEW T, T \subseteq S
    PROVE  /\ IsFiniteSet(T) /\ Cardinality(T) \in Nat /\ Cardinality(S) \in Nat
           /\ Cardinality(T) <= Cardinality(S)
           /\ T # S => Cardinality(T) # Cardinality(S)
  <1>1. T \in SUBSET S
    OBVIOUS
  <1>2. /\ IsFiniteSet(T)
        /\ Cardinality(T) <= Cardinality(S)
        /\ Cardinality(S) = Cardinality(T) => S = T
    BY <1>1, FS_Subset
  <1>3. Cardinality(T) \in Nat /\ Cardinality(S) \in Nat
    BY <1>2, FS_CardinalityType
  <1> QED BY <1>2, <1>3

\* The sockets up to w.
UpTo(w) == {v \in registered : v <= w}

LEMMA UpToIsFinite ==
    ASSUME TypeRegistered, NEW w \in Sockets
    PROVE  IsFiniteSet(UpTo(w)) /\ UpTo(w) \subseteq 1..w /\ Index(w) = Cardinality(UpTo(w))
           /\ Index(w) \in 0..w
  <1>1. UpTo(w) \subseteq 1..w
    <2> SUFFICES ASSUME NEW v \in UpTo(w) PROVE v \in 1..w
      OBVIOUS
    <2>1. v \in Sockets /\ v <= w
      BY DEF TypeRegistered, UpTo
    <2> QED BY <2>1, SizeBounds DEF Sockets
  <1>2. IsFiniteSet(1..w) /\ Cardinality(1..w) = w
    BY FS_Interval, SizeBounds DEF Sockets
  <1>3. IsFiniteSet(UpTo(w)) /\ Cardinality(UpTo(w)) <= Cardinality(1..w)
    BY <1>1, <1>2, SubsetSize
  <1>4. Cardinality(UpTo(w)) \in Nat
    BY <1>3, FS_CardinalityType
  <1>5. Index(w) = Cardinality(UpTo(w))
    BY DEF Index, UpTo
  <1> QED BY <1>1, <1>2, <1>3, <1>4, <1>5, SizeBounds DEF Sockets

\* Positions are in the order of the numbers, and start from 1.
LEMMA IndexOrder ==
    ASSUME TypeRegistered, NEW v \in registered, NEW w \in registered, v < w
    PROVE  Index(v) < Index(w)
  <1>1. v \in Sockets /\ w \in Sockets
    BY DEF TypeRegistered
  <1>a. v \in Int /\ w \in Int /\ \A u \in registered : u \in Int
    BY <1>1, SizeBounds DEF TypeRegistered, Sockets
  <1>b. \A u \in registered : u <= v => u <= w
    BY <1>a
  <1>c. w <= w /\ ~(w <= v)
    BY <1>a
  <1>2. UpTo(v) \subseteq UpTo(w) /\ w \in UpTo(w) /\ w \notin UpTo(v)
    BY <1>b, <1>c, Zenon DEF UpTo
  <1>3. IsFiniteSet(UpTo(w)) /\ UpTo(v) # UpTo(w)
    BY <1>1, <1>2, UpToIsFinite
  <1>4. /\ Cardinality(UpTo(v)) <= Cardinality(UpTo(w))
        /\ Cardinality(UpTo(v)) # Cardinality(UpTo(w))
    BY <1>3, <1>2, SubsetSize
  <1>5. Index(v) = Cardinality(UpTo(v)) /\ Index(w) = Cardinality(UpTo(w))
        /\ Index(v) \in Nat /\ Index(w) \in Nat
    BY <1>1, UpToIsFinite
  <1> QED BY <1>4, <1>5

LEMMA IndexRange ==
    ASSUME TypeRegistered, NEW w \in registered
    PROVE  Index(w) \in Sockets /\ Index(w) \in Nat \ {0}
  <1>1. w \in Sockets
    BY DEF TypeRegistered
  <1>2. w \in UpTo(w)
    BY <1>1 DEF UpTo, Sockets
  <1>3. IsFiniteSet(UpTo(w)) /\ Index(w) = Cardinality(UpTo(w)) /\ Index(w) \in 0..w
    BY <1>1, UpToIsFinite
  <1>4. Index(w) # 0
    BY <1>2, <1>3, FS_EmptySet
  <1> QED BY <1>1, <1>3, <1>4, SizeBounds DEF Sockets

\* What leaves the list moves those behind it, and no others.
LEMMA IndexWithout ==
    ASSUME TypeRegistered, NEW w \in Sockets, registered' = registered \ {w},
           NEW v \in registered'
    PROVE  /\ w \notin registered \/ v < w => Index(v)' = Index(v)
           /\ w \in registered /\ w < v => Index(v)' = Index(v) - 1
  <1>1. v \in Sockets /\ v \in Int /\ w \in Int
    BY SizeBounds DEF TypeRegistered, Sockets
  <1>2. IsFiniteSet(UpTo(v)) /\ Index(v) = Cardinality(UpTo(v)) /\ Cardinality(UpTo(v)) \in Nat
    BY <1>1, UpToIsFinite, FS_CardinalityType
  <1>3. UpTo(v)' = UpTo(v) \ {w} /\ Index(v)' = Cardinality(UpTo(v)')
    BY DEF UpTo, Index
  <1>4. Cardinality(UpTo(v) \ {w}) = IF w \in UpTo(v) THEN Cardinality(UpTo(v)) - 1
                                                     ELSE Cardinality(UpTo(v))
    BY <1>2, FS_RemoveElement
  <1>5. w \in UpTo(v) <=> w \in registered /\ w <= v
    BY DEF UpTo
  <1>6. CASE w \notin registered \/ v < w
    <2>1. w \notin UpTo(v)
      BY <1>1, <1>5, <1>6
    <2>2. ~(w \in registered /\ w < v)
      BY <1>1, <1>6
    <2> QED BY <1>2, <1>3, <1>4, <2>1, <2>2
  <1>7. CASE w \in registered /\ w < v
    <2>1. w \in UpTo(v) /\ ~(v < w)
      BY <1>1, <1>5, <1>7
    <2> QED BY <1>2, <1>3, <1>4, <1>7, <2>1
  <1> QED BY <1>6, <1>7

\* The handlers are numbered as they begin.
OpenedInOrder ==
    \A v, w \in Sockets : v < w /\ wpc[w] # "unused" => wpc[v] # "unused"

Listed(w) == wpc[w] \in {"replaying", "serving", "leaving", "lost"}

DeadHaveGone ==
    \A n \in Resizes : \A w \in dead[n] : wpc[w] \in {"leaving", "gone", "lost"}

ListInv == SizeTypes /\ OpenedInOrder /\ ListedWhileLive /\ DeadHaveGone

\* What a turn of a broadcast changes.
LEMMA FailingHaveGone ==
    ASSUME ListInv, NEW i
    PROVE  Failing(i) \subseteq registered /\ \A w \in Failing(i) : wpc[w] \in {"leaving", "lost"}
  BY DEF Failing, Ahead, ListInv, ListedWhileLive, Live, SizeTypes, TypeRegistered

LEMMA GoOnTypes ==
    ASSUME ListInv, NEW n \in Resizes, NEW i, GoOn(n, i), wpc' = wpc
    PROVE  /\ TypeRegistered' /\ TypeShown' /\ TypeAt' /\ TypeDead'
           /\ TypeDisturbed' /\ ListedWhileLive' /\ DeadHaveGone'
  <1> USE DEF ListInv, SizeTypes
  <1>1. Failing(i) \subseteq registered /\ \A w \in Failing(i) : wpc[w] \in {"leaving", "lost"}
    BY FailingHaveGone
  <1>2. CASE \E w \in Sockets :
                /\ FirstLive(i, w)
                /\ shown' = [shown EXCEPT ![w] = n]
                /\ at' = [at EXCEPT ![n] = Index(w)]
                /\ dead' = [dead EXCEPT ![n] = @ \cup Failing(i)]
                /\ UNCHANGED <<registered, disturbed>>
    <2>1. PICK w \in Sockets :
                /\ FirstLive(i, w)
                /\ shown' = [shown EXCEPT ![w] = n]
                /\ at' = [at EXCEPT ![n] = Index(w)]
                /\ dead' = [dead EXCEPT ![n] = @ \cup Failing(i)]
                /\ UNCHANGED <<registered, disturbed>>
      BY <1>2
    <2>2. Index(w) \in Sockets
      BY <2>1, IndexRange DEF FirstLive, Ahead
    <2>3. n \in Sizes
      BY SizeBounds DEF Resizes, Sizes
    <2>4. TypeShown' /\ TypeAt'
      BY <2>1, <2>2, <2>3 DEF TypeShown, TypeAt
    <2>5. TypeDead' /\ TypeRegistered'
      BY <1>1, <2>1 DEF TypeDead, TypeRegistered
    <2>6. ListedWhileLive' /\ DeadHaveGone'
      BY <1>1, <2>1 DEF ListedWhileLive, DeadHaveGone, Live, TypeDead
    <2>7. TypeDisturbed'
      BY <2>1, Zenon DEF TypeDisturbed
    <2> QED BY <2>4, <2>5, <2>6, <2>7
  <1>3. CASE /\ \A w \in Ahead(i) : ~Live(w)
             /\ registered' = registered \ (dead[n] \cup Failing(i))
             /\ at' = [at EXCEPT ![n] = Done]
             /\ disturbed' = (disturbed \/ \E o \in Resizes \ {n} : UnderWay(o))
             /\ UNCHANGED <<shown, dead>>
    <2>1. TypeShown' /\ TypeAt' /\ TypeDead' /\ TypeRegistered'
      BY <1>3 DEF TypeShown, TypeAt, TypeDead, TypeRegistered
    <2>2. ListedWhileLive' /\ DeadHaveGone'
      BY <1>1, <1>3 DEF ListedWhileLive, DeadHaveGone, Live
    <2>3. TypeDisturbed'
      BY <1>3, Zenon DEF TypeDisturbed
    <2> QED BY <2>1, <2>2, <2>3
  <1> QED BY <1>2, <1>3, Zenon DEF GoOn

LEMMA ListInit == SizeInit => ListInv
  <1> SUFFICES ASSUME SizeInit PROVE ListInv
    OBVIOUS
  <1>1. TypeWindow /\ TypeWpc /\ TypeRegistered /\ TypeShown
    BY SizeBounds DEF SizeInit, TypeWindow, TypeWpc, TypeRegistered, TypeShown, Sizes, Stages
  <1>a. TypeAt /\ TypeDead
    BY DEF SizeInit, TypeAt, TypeDead
  <1>b. TypeDisturbed
    BY Zenon DEF SizeInit, TypeDisturbed
  <1>2. OpenedInOrder /\ ListedWhileLive /\ DeadHaveGone
    BY DEF SizeInit, OpenedInOrder, ListedWhileLive, DeadHaveGone, Live
  <1> QED BY <1>1, <1>2, <1>a, <1>b DEF ListInv, SizeTypes

\* What the actions leave alone keeps its type.
LEMMA SameList ==
    ASSUME ListInv, UNCHANGED <<wpc, registered, dead>>
    PROVE  TypeWpc' /\ TypeRegistered' /\ TypeDead' /\ OpenedInOrder' /\ ListedWhileLive'
           /\ DeadHaveGone'
  BY DEF ListInv, SizeTypes, TypeWpc, TypeRegistered, TypeDead, OpenedInOrder, ListedWhileLive,
     DeadHaveGone, Live

LEMMA SameBroadcasts ==
    ASSUME SizeTypes, UNCHANGED <<at, dead>>
    PROVE  TypeAt' /\ TypeDead'
  BY DEF SizeTypes, TypeAt, TypeDead

LEMMA ResizingKeepsList == ListInv /\ Resizing => ListInv'
  <1> SUFFICES ASSUME ListInv, Resizing PROVE ListInv'
    OBVIOUS
  <1>1. SizeTypes
    BY DEF ListInv
  <1>2. CASE WindowResized
    <2>1. TypeWindow' /\ TypeShown'
      BY <1>1, <1>2, SizeBounds
         DEF WindowResized, SizeTypes, TypeWindow, TypeShown, Sizes, Resizes
    <2>2. TypeDisturbed'
      BY <1>1, <1>2, Zenon DEF WindowResized, SizeTypes, TypeDisturbed
    <2>3. UNCHANGED <<wpc, registered, at, dead>>
      BY <1>2 DEF WindowResized
    <2> QED BY <1>1, <2>1, <2>2, <2>3, SameList, SameBroadcasts DEF ListInv, SizeTypes
  <1>3. ASSUME NEW n \in Resizes, PostFails(n) PROVE ListInv'
    <2>1. TypeWindow' /\ TypeShown'
      BY <1>1, <1>3 DEF PostFails, SizeTypes, TypeWindow, TypeShown
    <2>2. TypeDisturbed'
      BY <1>3, Zenon DEF PostFails, TypeDisturbed
    <2>3. UNCHANGED <<wpc, registered, at, dead>>
      BY <1>3 DEF PostFails
    <2> QED BY <1>1, <2>1, <2>2, <2>3, SameList, SameBroadcasts DEF ListInv, SizeTypes
  <1>4. ASSUME NEW n \in Resizes, HandleResize(n) PROVE ListInv'
    <2>1. GoOn(n, 1) /\ wpc' = wpc
      BY <1>4 DEF HandleResize
    <2>2. TypeWindow' /\ TypeWpc' /\ OpenedInOrder'
      BY <1>1, <1>4, SizeBounds DEF HandleResize, ListInv, SizeTypes, TypeWindow, TypeWpc,
         OpenedInOrder, Sizes, Resizes
    <2> QED BY <2>1, <2>2, GoOnTypes DEF ListInv, SizeTypes
  <1>5. ASSUME NEW n \in Resizes, Continue(n) PROVE ListInv'
    <2>1. GoOn(n, at[n] + 1) /\ wpc' = wpc
      BY <1>5 DEF Continue
    <2>2. TypeWindow' /\ TypeWpc' /\ OpenedInOrder'
      BY <1>1, <1>5 DEF Continue, ListInv, SizeTypes, TypeWindow, TypeWpc, OpenedInOrder
    <2> QED BY <2>1, <2>2, GoOnTypes DEF ListInv, SizeTypes
  <1> QED BY <1>2, <1>3, <1>4, <1>5, Zenon DEF Resizing

LEMMA OpenKeepsList ==
    ASSUME ListInv, NEW w \in Sockets, Open(w)
    PROVE  ListInv'
  <1>1. SizeTypes /\ OpenedInOrder /\ ListedWhileLive /\ DeadHaveGone
    BY DEF ListInv
  <1>2. TypeWindow' /\ TypeShown'
    BY <1>1 DEF Open, SizeTypes, TypeWindow, TypeShown
  <1>3. TypeWpc' /\ TypeRegistered'
    BY <1>1 DEF Open, SizeTypes, TypeWpc, TypeRegistered, Stages
  <1>4. TypeAt' /\ TypeDead'
    BY <1>1, SameBroadcasts DEF Open
  <1>5. TypeDisturbed'
    BY <1>1, Zenon DEF Open, SizeTypes, TypeDisturbed
  <1>6. OpenedInOrder'
    BY <1>1 DEF Open, SizeTypes, TypeWpc, OpenedInOrder
  <1>7. ListedWhileLive'
    BY <1>1 DEF Open, SizeTypes, TypeWpc, TypeRegistered, ListedWhileLive, Live
  <1>8. DeadHaveGone'
    BY <1>1 DEF Open, SizeTypes, TypeWpc, TypeDead, DeadHaveGone
  <1> QED BY <1>2, <1>3, <1>4, <1>5, <1>6, <1>7, <1>8 DEF ListInv, SizeTypes

\* The stages of the handler of w after the socket was opened.
Next1(w, from, to) == wpc[w] = from /\ wpc' = [wpc EXCEPT ![w] = to]

LEMMA StageKeepsList ==
    ASSUME ListInv, NEW w \in Sockets,
           \/ Next1(w, "replaying", "serving") /\ registered' = registered
           \/ Next1(w, "replaying", "lost") /\ registered' = registered
           \/ Next1(w, "serving", "leaving") /\ registered' = registered
           \/ Next1(w, "leaving", "gone") /\ registered' = registered \ {w},
           UNCHANGED <<window, posts, size, shown, at, dead>>,
           TypeDisturbed'
    PROVE  ListInv'
  <1>1. SizeTypes /\ OpenedInOrder /\ ListedWhileLive /\ DeadHaveGone
    BY DEF ListInv
  <1>2. TypeWindow' /\ TypeShown'
    BY <1>1 DEF SizeTypes, TypeWindow, TypeShown
  <1>3. TypeWpc' /\ TypeRegistered'
    BY <1>1 DEF Next1, SizeTypes, TypeWpc, TypeRegistered, Stages
  <1>4. TypeAt' /\ TypeDead'
    BY <1>1, SameBroadcasts
  <1>5. OpenedInOrder'
    BY <1>1 DEF Next1, SizeTypes, TypeWpc, OpenedInOrder
  <1>6. ListedWhileLive'
    BY <1>1 DEF Next1, SizeTypes, TypeWpc, TypeRegistered, ListedWhileLive, Live
  <1>7. DeadHaveGone'
    BY <1>1 DEF Next1, SizeTypes, TypeWpc, TypeDead, DeadHaveGone
  <1> QED BY <1>2, <1>3, <1>4, <1>5, <1>6, <1>7 DEF ListInv, SizeTypes

LEMMA SessionsKeepList == ListInv /\ Sessions => ListInv'
  <1> SUFFICES ASSUME ListInv, NEW w \in Sockets,
                      Open(w) \/ Serve(w) \/ LeaveReplay(w) \/ Leave(w) \/ Unregister(w)
               PROVE  ListInv'
    BY Zenon DEF Sessions
  <1>1. TypeDisturbed
    BY DEF ListInv, SizeTypes
  <1>2. CASE Open(w)
    BY <1>2, OpenKeepsList
  <1>3. CASE Serve(w) \/ LeaveReplay(w) \/ Leave(w)
    <2>1. TypeDisturbed'
      BY <1>1, <1>3, Zenon DEF Serve, LeaveReplay, Leave, TypeDisturbed
    <2>2. UNCHANGED <<window, posts, size, registered, shown, at, dead>>
      BY <1>3 DEF Serve, LeaveReplay, Leave
    <2>3. \/ Next1(w, "replaying", "serving")
          \/ Next1(w, "replaying", "lost")
          \/ Next1(w, "serving", "leaving")
      BY <1>3, Zenon DEF Serve, LeaveReplay, Leave, Next1
    <2> QED BY <2>1, <2>2, <2>3, StageKeepsList
  <1>4. CASE Unregister(w)
    <2>1. TypeDisturbed'
      BY <1>1, <1>4, Zenon DEF Unregister, TypeDisturbed
    <2>2. UNCHANGED <<window, posts, size, shown, at, dead>>
          /\ registered' = registered \ {w}
      BY <1>4 DEF Unregister
    <2>3. Next1(w, "leaving", "gone")
      BY <1>4, Zenon DEF Unregister, Next1
    <2> QED BY <2>1, <2>2, <2>3, StageKeepsList
  <1> QED BY <1>2, <1>3, <1>4

LEMMA ListStutter == ListInv /\ UNCHANGED sizeVars => ListInv'
  BY DEF ListInv, sizeVars, SizeTypes, TypeWindow, TypeWpc, TypeRegistered, TypeShown, TypeAt,
     TypeDead, TypeDisturbed, OpenedInOrder, ListedWhileLive, DeadHaveGone, Live

LEMMA ListStep == ListInv /\ [SizeNext]_sizeVars => ListInv'
  BY ResizingKeepsList, SessionsKeepList, ListStutter DEF SizeNext

LEMMA AlwaysListInv == SizeSpec => []ListInv
  <1>1. SizeInit => ListInv
    BY ListInit
  <1>2. ListInv /\ [SizeNext]_sizeVars => ListInv'
    BY ListStep
  <1> QED BY <1>1, <1>2, PTL DEF SizeSpec

\* Every variable of TerminalSize keeps its type: internal_terminal_resize, _broadcast
\* and terminal_ws never put anything else into the list, the sizes or the loops.
THEOREM SizeTypeCorrect == SizeSpec => []SizeTypeOK
  <1>1. ListInv => SizeTypeOK
    BY Zenon DEF ListInv, SizeTypes, TypeWindow, TypeWpc, TypeRegistered, TypeShown, TypeAt,
       TypeDead, TypeDisturbed, SizeTypeOK
  <1> QED BY <1>1, AlwaysListInv, PTL

\* No broadcast and no departure takes a tab that is being served out of the list of
\* _broadcast and terminal_ws, however many tabs there are.
THEOREM ServedTabsListed == SizeSpec => []ListedWhileLive
  <1>1. ListInv => ListedWhileLive
    BY DEF ListInv
  <1> QED BY <1>1, AlwaysListInv, PTL

-----------------------------------------------------------------------------
(* TerminalSize: the tabs show the size of the window.                     *)

NoneUnderWay == \A n \in Resizes : ~UnderWay(n)

Settled == Quiet => size = window /\ \A w \in Sockets : Live(w) => shown[w] = window
Posted == posts # {} => posts = {window} /\ NoneUnderWay
Reached(n, i) == \A w \in registered : Live(w) => shown[w] = n \/ Index(w) >= i
Running ==
    \A n \in Resizes : UnderWay(n) =>
        n = window /\ size = n /\ posts = {} /\ Reached(n, at[n] + 1)

Orderly == Settled /\ Posted /\ Running

SizeInv == ListInv /\ (~disturbed => Orderly)

LEMMA SocketNumbers ==
    /\ \A w \in Sockets : w \in Nat \ {0}
    /\ NotBegun \notin Sockets /\ Done \notin Sockets
  BY SizeBounds DEF Sockets, NotBegun, Done

\* A turn of the only broadcast under way.
LEMMA GoOnShows ==
    ASSUME ListInv, ListInv', NEW n \in Resizes, NEW i \in Nat, GoOn(n, i), Reached(n, i),
           \A o \in Resizes \ {n} : ~UnderWay(o),
           wpc' = wpc, posts' = {}, window' = n, size' = n
    PROVE  Orderly'
  <1>1. TypeRegistered /\ TypeShown /\ TypeAt /\ ListedWhileLive
    BY DEF ListInv, SizeTypes
  <1>2. Posted'
    BY DEF Posted
  <1>3. CASE \E w \in Sockets :
                /\ FirstLive(i, w)
                /\ shown' = [shown EXCEPT ![w] = n]
                /\ at' = [at EXCEPT ![n] = Index(w)]
                /\ dead' = [dead EXCEPT ![n] = @ \cup Failing(i)]
                /\ UNCHANGED <<registered, disturbed>>
    <2>1. PICK w \in Sockets :
                /\ FirstLive(i, w)
                /\ shown' = [shown EXCEPT ![w] = n]
                /\ at' = [at EXCEPT ![n] = Index(w)]
                /\ registered' = registered
      BY <1>3
    <2>2. w \in registered /\ Index(w) \in Sockets
      BY <1>1, <2>1, IndexRange DEF FirstLive, Ahead
    <2>3. at'[n] = Index(w) /\ \A o \in Resizes \ {n} : at'[o] = at[o]
      BY <1>1, <2>1 DEF TypeAt
    <2>4. ~Quiet'
      BY <2>2, <2>3 DEF Quiet, UnderWay
    <2>5. \A o \in Resizes : UnderWay(o)' => o = n
      BY <2>3 DEF UnderWay
    <2>6. ASSUME NEW v \in registered, Live(v) PROVE shown'[v] = n \/ Index(v) >= Index(w) + 1
      <3>1. v \in Sockets
        BY <1>1 DEF TypeRegistered
      <3>2. CASE v = w
        BY <1>1, <2>1, <3>2 DEF TypeShown
      <3>3. CASE v # w /\ shown[v] = n
        BY <1>1, <2>1, <3>1, <3>3 DEF TypeShown
      <3>4. CASE v # w /\ shown[v] # n
        <4>1. Index(v) >= i
          BY <2>6, <3>4 DEF Reached
        <4>2. w <= v
          BY <2>1, <2>6, <4>1 DEF FirstLive, Ahead
        <4>3. w < v
          BY <3>1, <3>4, <4>2, SocketNumbers
        <4>4. Index(w) < Index(v)
          BY <1>1, <2>2, <4>3, IndexOrder
        <4>5. Index(v) \in Nat /\ Index(w) \in Nat
          BY <1>1, <2>2, IndexRange
        <4> QED BY <4>4, <4>5
      <3> QED BY <3>2, <3>3, <3>4
    <2>7. \A v : Index(v)' = Index(v) /\ (Live(v)' <=> Live(v))
      BY <2>1 DEF Index, Live
    <2>8. Reached(n, at[n] + 1)'
      BY <2>1, <2>3, <2>6, <2>7 DEF Reached
    <2>9. Running'
      BY <2>5, <2>8 DEF Running
    <2> QED BY <1>2, <2>4, <2>9 DEF Orderly, Settled
  <1>4. CASE /\ \A w \in Ahead(i) : ~Live(w)
             /\ registered' = registered \ (dead[n] \cup Failing(i))
             /\ at' = [at EXCEPT ![n] = Done]
             /\ disturbed' = (disturbed \/ \E o \in Resizes \ {n} : UnderWay(o))
             /\ UNCHANGED <<shown, dead>>
    <2>1. at'[n] = Done /\ \A o \in Resizes \ {n} : at'[o] = at[o]
      BY <1>1, <1>4 DEF TypeAt
    <2>2. \A o \in Resizes : ~UnderWay(o)'
      BY <2>1, SocketNumbers DEF UnderWay
    <2>3. ASSUME NEW w \in Sockets, Live(w)' PROVE shown'[w] = n
      <3>1. Live(w) /\ w \in registered
        BY <1>1, <2>3 DEF Live, ListedWhileLive
      <3>2. ~(Index(w) >= i)
        BY <1>4, <3>1 DEF Ahead
      <3> QED BY <1>4, <3>1, <3>2 DEF Reached
    <2> QED BY <1>2, <2>2, <2>3 DEF Orderly, Settled, Running
  <1> QED BY <1>3, <1>4, Zenon DEF GoOn

LEMMA HandleShows ==
    ASSUME ListInv, ListInv', Orderly, NEW n \in Resizes, HandleResize(n)
    PROVE  Orderly'
  <1>1. posts = {window} /\ n = window /\ NoneUnderWay
    BY DEF Orderly, Posted, HandleResize
  <1>2. Reached(n, 1)
    <2>1. TypeRegistered
      BY DEF ListInv, SizeTypes
    <2> QED BY <2>1, IndexRange DEF Reached
  <1>3. posts' = {} /\ window' = n /\ size' = n /\ wpc' = wpc /\ GoOn(n, 1)
    BY <1>1 DEF HandleResize
  <1>4. \A o \in Resizes \ {n} : ~UnderWay(o)
    BY <1>1 DEF NoneUnderWay
  <1> QED BY <1>2, <1>3, <1>4, GoOnShows

LEMMA ContinueShows ==
    ASSUME ListInv, ListInv', Orderly, NEW n \in Resizes, Continue(n)
    PROVE  Orderly'
  <1>1. n = window /\ size = n /\ posts = {} /\ Reached(n, at[n] + 1)
    BY DEF Orderly, Running, Continue
  <1>2. \A o \in Resizes \ {n} : ~UnderWay(o)
    BY <1>1 DEF Orderly, Running
  <1>3. at[n] \in Nat
    BY SocketNumbers DEF Continue, UnderWay
  <1>4. posts' = {} /\ window' = n /\ size' = n /\ wpc' = wpc /\ GoOn(n, at[n] + 1)
    BY <1>1 DEF Continue
  <1>5. at[n] + 1 \in Nat
    BY <1>3
  <1> QED BY <1>1, <1>2, <1>4, <1>5, GoOnShows

LEMMA WindowShows ==
    ASSUME WindowResized, Quiet
    PROVE  Orderly'
  <1>1. posts' = {window'} /\ at' = at
    BY DEF WindowResized, Quiet
  <1>2. NoneUnderWay'
    BY <1>1 DEF NoneUnderWay, Quiet, UnderWay
  <1> QED BY <1>1, <1>2 DEF Orderly, Settled, Posted, Running, Quiet, NoneUnderWay

LEMMA OpenShows ==
    ASSUME ListInv, Orderly, NEW w \in Sockets, Open(w)
    PROVE  Orderly'
  <1>1. TypeRegistered /\ TypeShown /\ TypeWpc /\ OpenedInOrder /\ ListedWhileLive
    BY DEF ListInv, SizeTypes
  <1>2. /\ registered' = registered \cup {w} /\ wpc[w] = "unused" /\ wpc'[w] = "replaying"
        /\ shown'[w] = size
        /\ \A v \in Sockets \ {w} : wpc'[v] = wpc[v] /\ shown'[v] = shown[v]
        /\ UNCHANGED <<window, posts, size, at>>
    BY <1>1 DEF Open, TypeShown, TypeWpc
  <1>3. w \notin registered
    BY <1>1, <1>2 DEF ListedWhileLive
  <1>4. ASSUME NEW v \in registered PROVE Index(v)' = Index(v)
    <2>1. v \in Sockets /\ wpc[v] # "unused"
      BY <1>1, <1>4 DEF TypeRegistered, ListedWhileLive
    <2>2. ~(w < v)
      BY <1>1, <1>2, <2>1 DEF OpenedInOrder
    <2>3. ~(w <= v)
      BY <1>3, <2>1, <2>2, SocketNumbers
    <2>4. {u \in registered' : u <= v} = {u \in registered : u <= v}
      BY <1>2, <2>3
    <2> QED BY <2>4 DEF Index
  <1>5. Settled'
    BY <1>2 DEF Orderly, Settled, Quiet, UnderWay, Live
  <1>6. Posted'
    BY <1>2 DEF Orderly, Posted, NoneUnderWay, UnderWay
  <1>7. ASSUME NEW n \in Resizes, UnderWay(n)' PROVE n = window /\ size = n /\ posts = {}
                                                     /\ Reached(n, at[n] + 1)'
    <2>1. n = window /\ size = n /\ posts = {} /\ Reached(n, at[n] + 1)
      BY <1>2, <1>7 DEF Orderly, Running, UnderWay
    <2>2. ASSUME NEW v \in registered', Live(v)' PROVE shown'[v] = n \/ Index(v)' >= at[n] + 1
      <3>1. CASE v = w
        BY <1>2, <2>1, <3>1
      <3>2. CASE v # w
        <4>1. v \in registered /\ v \in Sockets
          BY <1>1, <1>2, <3>2 DEF TypeRegistered
        <4>2. Live(v) /\ shown'[v] = shown[v]
          BY <1>2, <2>2, <3>2, <4>1 DEF Live
        <4>3. Index(v)' = Index(v)
          BY <1>4, <4>1
        <4>4. shown[v] = n \/ Index(v) >= at[n] + 1
          BY <2>1, <4>1, <4>2 DEF Reached
        <4> QED BY <4>2, <4>3, <4>4
      <3> QED BY <3>1, <3>2
    <2>3. Reached(n, at[n] + 1)'
      BY <1>2, <2>2 DEF Reached
    <2> QED BY <2>1, <2>3
  <1>8. Running'
    BY <1>2, <1>7 DEF Running
  <1> QED BY <1>5, <1>6, <1>8 DEF Orderly

\* The tab of a socket goes, or the replay ends.
LEMMA StageShows ==
    ASSUME Orderly, NEW w \in Sockets,
           \A v \in Sockets : Live(v)' => Live(v),
           UNCHANGED <<window, posts, size, shown, at>>,
           TypeRegistered,
           registered' = registered \/ (registered' = registered \ {w} /\ ~Shifts(w))
    PROVE  Orderly'
  <1>1. registered' \subseteq registered /\ registered \subseteq Sockets
    BY DEF TypeRegistered
  <1>2. Settled'
    BY DEF Orderly, Settled, Quiet, UnderWay
  <1>3. Posted'
    BY DEF Orderly, Posted, NoneUnderWay, UnderWay
  <1>4. CASE registered' = registered \ {w} /\ ~Shifts(w)
    <2>1. ASSUME NEW n \in Resizes, UnderWay(n)' PROVE n = window /\ size = n /\ posts = {}
                                                       /\ Reached(n, at[n] + 1)'
      <3>1. /\ n = window /\ size = n /\ posts = {} /\ Reached(n, at[n] + 1)
            /\ UnderWay(n) /\ at[n] \in Nat
        BY <2>1, SocketNumbers DEF Orderly, Running, UnderWay
      <3>2. ASSUME NEW v \in registered', Live(v)' PROVE shown'[v] = n \/ Index(v)' >= at[n] + 1
        <4>1. v \in registered /\ v \in Sockets /\ Live(v) /\ shown' = shown /\ v # w
          BY <1>1, <1>4, <3>2
        <4>2. Index(v) \in Nat /\ (shown[v] = n \/ Index(v) >= at[n] + 1)
          BY <3>1, <4>1, IndexRange DEF Reached
        <4>3. CASE w \notin registered \/ v < w
          BY <1>4, <4>1, <4>2, <4>3, IndexWithout
        <4>4. CASE w \in registered /\ w < v
          <5>1. Index(w) < Index(v) /\ Index(w) \in Nat
            BY <4>1, <4>4, IndexOrder, IndexRange
          <5>2. ~(Index(w) <= at[n])
            BY <1>4, <3>1, <4>4 DEF Shifts
          <5>3. Index(v)' = Index(v) - 1
            BY <1>4, <4>1, <4>4, IndexWithout
          <5> QED BY <3>1, <4>2, <5>1, <5>2, <5>3
        <4>5. w < v \/ v < w
          BY <4>1, SocketNumbers
        <4> QED BY <4>3, <4>4, <4>5
      <3> QED BY <3>1, <3>2 DEF Reached
    <2>2. Running'
      BY <2>1 DEF Running
    <2> QED BY <1>2, <1>3, <2>2 DEF Orderly
  <1>5. CASE registered' = registered
    <2>1. \A v : Index(v)' = Index(v)
      BY <1>5 DEF Index
    <2>2. ASSUME NEW n \in Resizes, UnderWay(n)' PROVE n = window /\ size = n /\ posts = {}
                                                       /\ Reached(n, at[n] + 1)'
      <3>1. n = window /\ size = n /\ posts = {} /\ Reached(n, at[n] + 1)
        BY <2>2 DEF Orderly, Running, UnderWay
      <3>2. Reached(n, at[n] + 1)'
        BY <1>1, <1>5, <2>1, <3>1 DEF Reached
      <3> QED BY <3>1, <3>2
    <2>3. Running'
      BY <2>2 DEF Running
    <2> QED BY <1>2, <1>3, <2>3 DEF Orderly
  <1> QED BY <1>4, <1>5

LEMMA SessionsShow ==
    ASSUME ListInv, Orderly, Sessions, ~disturbed'
    PROVE  Orderly'
  <1>1. TypeWpc /\ TypeRegistered
    BY DEF ListInv, SizeTypes
  <1>2. PICK w \in Sockets : Open(w) \/ Serve(w) \/ LeaveReplay(w) \/ Leave(w) \/ Unregister(w)
    BY Zenon DEF Sessions
  <1>3. CASE Open(w)
    BY <1>3, OpenShows
  <1>4. CASE Serve(w) \/ LeaveReplay(w) \/ Leave(w)
    <2>1. \A v \in Sockets : Live(v)' => Live(v)
      BY <1>1, <1>4 DEF Serve, LeaveReplay, Leave, Live, TypeWpc
    <2>2. UNCHANGED <<window, posts, size, shown, at, registered>>
      BY <1>4 DEF Serve, LeaveReplay, Leave
    <2> QED BY <1>1, <2>1, <2>2, StageShows
  <1>5. CASE Unregister(w)
    <2>1. \A v \in Sockets : Live(v)' => Live(v)
      BY <1>1, <1>5 DEF Unregister, Live, TypeWpc
    <2>2. UNCHANGED <<window, posts, size, shown, at>> /\ registered' = registered \ {w}
      BY <1>5 DEF Unregister
    <2>3. ~Shifts(w)
      BY <1>5, Zenon DEF Unregister
    <2> QED BY <1>1, <2>1, <2>2, <2>3, StageShows
  <1> QED BY <1>2, <1>3, <1>4, <1>5

LEMMA ResizingShows ==
    ASSUME ListInv, ListInv', ~disturbed => Orderly, Resizing, ~disturbed'
    PROVE  Orderly'
  <1>1. CASE WindowResized
    <2>1. Quiet
      BY <1>1, Zenon DEF WindowResized
    <2> QED BY <1>1, <2>1, WindowShows
  <1>2. ASSUME NEW n \in Resizes, PostFails(n) PROVE Orderly'
    BY <1>2, Zenon DEF PostFails
  <1>3. ASSUME NEW n \in Resizes, HandleResize(n) PROVE Orderly'
    <2>1. ~disturbed
      BY <1>3, Zenon DEF HandleResize, GoOn
    <2> QED BY <1>3, <2>1, HandleShows
  <1>4. ASSUME NEW n \in Resizes, Continue(n) PROVE Orderly'
    <2>1. ~disturbed
      BY <1>4, Zenon DEF Continue, GoOn
    <2> QED BY <1>4, <2>1, ContinueShows
  <1> QED BY <1>1, <1>2, <1>3, <1>4, Zenon DEF Resizing

LEMMA SessionsUndisturbed == Sessions /\ ~disturbed' => ~disturbed
  BY Zenon DEF Sessions, Open, Serve, LeaveReplay, Leave, Unregister

LEMMA SizeInvInit == SizeInit => SizeInv
  <1> SUFFICES ASSUME SizeInit PROVE SizeInv
    OBVIOUS
  <1>1. ListInv
    BY ListInit
  <1>2. NoneUnderWay /\ posts = {}
    BY SocketNumbers DEF SizeInit, NoneUnderWay, UnderWay
  <1>3. Settled
    BY DEF SizeInit, Settled
  <1> QED BY <1>1, <1>2, <1>3 DEF SizeInv, Orderly, Posted, Running, NoneUnderWay

LEMMA SizeInvStep == SizeInv /\ [SizeNext]_sizeVars => SizeInv'
  <1> SUFFICES ASSUME SizeInv, [SizeNext]_sizeVars PROVE SizeInv'
    OBVIOUS
  <1>1. ListInv /\ ListInv'
    BY ListStep DEF SizeInv
  <1>2. ASSUME ~disturbed' PROVE Orderly'
    <2>1. CASE Resizing
      BY <1>1, <1>2, <2>1, ResizingShows DEF SizeInv
    <2>2. CASE Sessions
      <3>1. ~disturbed
        BY <1>2, <2>2, SessionsUndisturbed
      <3>2. Orderly
        BY <3>1 DEF SizeInv
      <3> QED BY <1>1, <1>2, <2>2, <3>2, SessionsShow
    <2>3. CASE UNCHANGED sizeVars
      <3>1. ~disturbed
        BY <1>2, <2>3, Zenon DEF sizeVars
      <3>2. Orderly
        BY <3>1 DEF SizeInv
      <3>3. UNCHANGED <<window, posts, size, wpc, registered, shown, at>>
        BY <2>3 DEF sizeVars
      <3> QED BY <3>2, <3>3 DEF Orderly, Settled, Posted, Running, Reached, NoneUnderWay, Quiet,
                               UnderWay, Live, Index
    <2> QED BY <2>1, <2>2, <2>3 DEF SizeNext
  <1> QED BY <1>1, <1>2 DEF SizeInv

\* Whatever the number of tabs and sizes: when nothing is under way the tabs show the
\* size of the window, unless a post failed or overlapped another or the list shrank
\* under a loop of _broadcast (internal_terminal_resize, terminal_ws).
THEOREM TabsFollowWindow == SizeSpec => []TabsShowWindow
  <1>1. SizeInit => SizeInv
    BY SizeInvInit
  <1>2. SizeInv /\ [SizeNext]_sizeVars => SizeInv'
    BY SizeInvStep
  <1>3. SizeInv => TabsShowWindow
    BY DEF SizeInv, Orderly, Settled, TabsShowWindow
  <1> QED BY <1>1, <1>2, <1>3, PTL DEF SizeSpec
=============================================================================
