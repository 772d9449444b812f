---------------------------- MODULE MountsProofs ----------------------------
(* Proofs about Mounts and about Settings: what a sandbox sees of the file *)
(* system, and the services it is started with.                            *)
EXTENDS Mounts, Settings, FiniteSetTheorems, TLAPS

Stages == Sources \cup {"mount", "run"}
Indices == 1..Len(content)

TypeSource == source \in Stages
TypeContent == content \in Seq(Rule) /\ Len(content) <= MaxBinds
TypeMounted == mounted \subseteq 1..Len(content)
TypeView == view \in [Paths -> 0..Resolv]

MountTypes == TypeSource /\ TypeContent /\ TypeMounted /\ TypeView

\* Nothing is mounted while rules are gathered.
GatherFirst == source \in Sources => mounted = {}

\* bwrap has applied the first rules of the sorted list.
InOrder == \A i \in mounted, j \in Indices : j \notin mounted => Before(i, j)

\* A path is seen through the last rule applied that covers it.
SeenThrough(p, v) ==
    /\ v \in 0..MaxBinds
    /\ \A i \in mounted : Covers(i, p) =>
           v \in mounted /\ Covers(v, p) /\ (i = v \/ Before(i, v))

\* A path is seen through a rule applied after the gathered ones.
LastSeen(p, v) == v \in {Script, Program, Resolv} /\ \E d \in LateDests(v) : <<p, d>> \in Below

ViewIsLast ==
    /\ source # "run" => \A p \in Paths : SeenThrough(p, view[p])
    /\ source = "run" => \A p \in Paths : LastSeen(p, view[p]) \/ SeenThrough(p, view[p])
    /\ source = "run" => \A p \in Paths : <<p, ResolvPath>> \in Below => view[p] = Resolv

AllMounted == source = "run" => mounted = Indices

MountInv == MountTypes /\ GatherFirst /\ InOrder /\ ViewIsLast /\ AllMounted

-----------------------------------------------------------------------------
(* What a list of rules is.                                                *)

LEMMA RuleFields ==
    ASSUME TypeContent, NEW i \in Indices
    PROVE  Dest(i) \in Paths /\ Length[Dest(i)] \in Nat /\ content[i].extra \in Int
           /\ Spelled(i) \in Int
  <1>1. content[i] \in Rule
    BY DEF TypeContent, Indices
  <1>2. Dest(i) \in Paths /\ content[i].extra \in Int
    BY <1>1, Spellings DEF Dest, Rule
  <1>3. Length[Dest(i)] \in Nat
    BY <1>2, LongerBelow
  <1> QED BY <1>2, <1>3 DEF Spelled

\* The innermost of two rules for a path is the later of the sorted list, if it is not
\* spelled with more extra characters than the other.
LEMMA LaterIsInner ==
    ASSUME TypeContent, NEW p \in Paths, NEW i \in Indices, NEW v \in Indices,
           Covers(i, p), Covers(v, p), i = v \/ Before(i, v),
           content[v].extra <= content[i].extra
    PROVE  <<Dest(v), Dest(i)>> \in Below /\ (Dest(v) = Dest(i) => i <= v)
  <1>1. /\ Dest(i) \in Paths /\ Length[Dest(i)] \in Nat /\ content[i].extra \in Int
        /\ Dest(v) \in Paths /\ Length[Dest(v)] \in Nat /\ content[v].extra \in Int
    BY RuleFields
  <1>2. Length[Dest(i)] <= Length[Dest(v)]
    BY <1>1 DEF Before, Spelled
  <1>3. <<Dest(v), Dest(i)>> \in Below \/ <<Dest(i), Dest(v)>> \in Below
    BY <1>1, PathsAreATree DEF Covers
  <1>4. <<Dest(v), Dest(i)>> \in Below
    <2>1. ASSUME <<Dest(i), Dest(v)>> \in Below, Dest(i) # Dest(v) PROVE FALSE
      <3>1. Length[Dest(v)] < Length[Dest(i)]
        BY <1>1, <2>1, LongerBelow
      <3> QED BY <1>1, <1>2, <3>1
    <2>2. Dest(i) = Dest(v) => <<Dest(v), Dest(i)>> \in Below
      BY <1>1, PathsAreATree
    <2> QED BY <1>3, <2>1, <2>2
  <1>5. Dest(v) = Dest(i) => i <= v
    BY <1>1 DEF Before, Spelled, Indices
  <1> QED BY <1>4, <1>5

-----------------------------------------------------------------------------
(* The steps.                                                              *)

\* The rules gathered before a step stay as they are.
LEMMA GatherKeeps ==
    ASSUME MountInv, Gather
    PROVE  source \in Sources /\ mounted' = mounted /\ view' = view
           /\ TypeSource' /\ TypeContent'
  <1> DEFINE Kept(d, x, m) ==
        /\ Len(content) < MaxBinds
        /\ content' = Append(content, [dest |-> d, extra |-> x, mode |-> m])
  <1>1. source \in Sources /\ mounted' = mounted /\ view' = view /\ TypeSource'
    BY DEF Gather, Add, AddSpelled, GoOn, AddLocalBin, AddCwd, AddGitDir, AddProfileBind,
           AddProfileRo, AddHomeDir, AddUserBind, AddServiceBind, Sources, Lists, TypeSource,
           Stages
  <1>2. content' = content \/ \E d \in Paths, x \in Extras, m \in {"ro", "rw"} : Kept(d, x, m)
    BY Places, Spellings DEF Gather, Add, AddSpelled, GoOn, AddLocalBin, AddCwd, AddGitDir,
                  AddProfileBind, AddProfileRo, AddHomeDir, AddUserBind, AddServiceBind
  <1>3. content \in Seq(Rule) /\ Len(content) <= MaxBinds
    BY DEF MountInv, MountTypes, TypeContent
  <1>4. ASSUME NEW d \in Paths, NEW x \in Extras, NEW m \in {"ro", "rw"}, Kept(d, x, m)
        PROVE  TypeContent'
    <2>1. [dest |-> d, extra |-> x, mode |-> m] \in Rule
      BY DEF Rule
    <2> QED BY <1>3, <1>4, <2>1, BindsBound DEF TypeContent
  <1> QED BY <1>1, <1>2, <1>3, <1>4 DEF TypeContent

LEMMA GatherStep ==
    ASSUME MountInv, Gather
    PROVE  MountInv'
  <1>1. source \in Sources /\ mounted' = mounted /\ view' = view /\ TypeSource' /\ TypeContent'
    BY GatherKeeps
  <1>2. mounted = {}
    BY <1>1 DEF MountInv, GatherFirst
  <1>3. source' # "run"
    BY DEF Gather, Add, AddSpelled, GoOn, AddLocalBin, AddCwd, AddGitDir, AddProfileBind,
           AddProfileRo, AddHomeDir, AddUserBind, AddServiceBind
  <1>4. MountTypes'
    BY <1>1, <1>2 DEF MountInv, MountTypes, TypeMounted, TypeView
  <1>5. \A p \in Paths : view[p] \in 0..MaxBinds
    BY <1>1 DEF MountInv, ViewIsLast, SeenThrough, Sources, Lists
  <1>6. GatherFirst' /\ InOrder' /\ ViewIsLast' /\ AllMounted'
    BY <1>1, <1>2, <1>3, <1>5 DEF GatherFirst, InOrder, ViewIsLast, SeenThrough, AllMounted
  <1> QED BY <1>4, <1>6 DEF MountInv

LEMMA MountStep ==
    ASSUME MountInv, NEW i \in 1..MaxBinds, Mount(i)
    PROVE  MountInv'
  <1>1. /\ i \in Indices /\ i \notin mounted /\ source = "mount" /\ source' = source
        /\ content' = content /\ mounted' = mounted \cup {i}
        /\ Indices' = Indices
    BY DEF Mount, Indices
  <1>2. \A j, k \in Indices : (Before(j, k) <=> Before(j, k)')
    BY <1>1 DEF Before, Spelled, Dest
  <1>3. MountTypes'
    <2>1. view' \in [Paths -> 0..Resolv]
      <3>1. i \in 0..Resolv
        BY BindsBound DEF Resolv
      <3> QED BY <3>1 DEF MountInv, MountTypes, TypeView, Mount
    <2> QED BY <1>1, <2>1 DEF MountInv, MountTypes, TypeSource, TypeContent, TypeMounted,
               TypeView, Indices, Stages
  <1>4. InOrder'
    <2>1. \A j \in Indices : j \in mounted \/ j = i \/ Before(i, j)
      BY DEF Mount, Indices
    <2>2. mounted \subseteq Indices
      BY DEF MountInv, MountTypes, TypeMounted, Indices
    <2> QED BY <1>1, <1>2, <2>1, <2>2 DEF MountInv, InOrder
  <1>5. ASSUME NEW p \in Paths PROVE SeenThrough(p, view[p])'
    <2>1. SeenThrough(p, view[p])
      BY <1>1 DEF MountInv, ViewIsLast
    <2>2. \A j \in mounted : Before(j, i)
      BY <1>1 DEF MountInv, InOrder
    <2>3. \A j \in Indices : (Covers(j, p) <=> Covers(j, p)')
      BY <1>1 DEF Covers, Dest
    <2>4. view'[p] = IF Covers(i, p) THEN i ELSE view[p]
      BY DEF Mount
    <2>5. mounted \subseteq Indices
      BY DEF MountInv, MountTypes, TypeMounted, Indices
    <2>6. view'[p] \in 0..MaxBinds
      BY <2>1, <2>4 DEF SeenThrough
    <2> QED BY <1>1, <1>2, <2>1, <2>2, <2>3, <2>4, <2>5, <2>6 DEF SeenThrough
  <1>6. GatherFirst' /\ ViewIsLast' /\ AllMounted'
    BY <1>1, <1>5 DEF GatherFirst, ViewIsLast, AllMounted, Sources, Lists
  <1> QED BY <1>3, <1>4, <1>6 DEF MountInv

LEMMA RunStep ==
    ASSUME MountInv, Launch
    PROVE  MountInv'
  <1>1. /\ source = "mount" /\ source' = "run" /\ content' = content /\ mounted' = mounted
        /\ mounted = Indices /\ Indices' = Indices
    BY DEF Launch, Indices
  <1>2. MountTypes'
    <2>1. view' \in [Paths -> 0..Resolv]
      <3>1. {Script, Program, Resolv} \subseteq 0..Resolv
        BY BindsBound DEF Script, Program, Resolv
      <3> QED BY <3>1 DEF MountInv, MountTypes, TypeView, Launch
    <2> QED BY <1>1, <2>1 DEF MountInv, MountTypes, TypeSource, TypeContent, TypeMounted,
               TypeView, Indices, Stages
  <1>3. ASSUME NEW p \in Paths
        PROVE  /\ LastSeen(p, view[p])' \/ SeenThrough(p, view[p])'
               /\ <<p, ResolvPath>> \in Below => view'[p] = Resolv
    <2>1. PICK names \in SUBSET Binaries :
            view'[p] = IF <<p, ResolvPath>> \in Below THEN Resolv
                       ELSE IF \E d \in names : <<p, d>> \in Below THEN Program
                       ELSE IF <<p, ScriptPath>> \in Below THEN Script
                       ELSE view[p]
      BY DEF Launch
    <2>2. SeenThrough(p, view[p])
      BY <1>1 DEF MountInv, ViewIsLast
    <2>3. /\ LateDests(Resolv) = {ResolvPath} /\ LateDests(Program) = Binaries
          /\ LateDests(Script) = {ScriptPath}
      BY BindsBound DEF LateDests, Script, Program, Resolv
    <2>4. ASSUME view'[p] = view[p] PROVE SeenThrough(p, view[p])'
      BY <1>1, <2>2, <2>4 DEF SeenThrough, Covers, Before, Spelled, Dest
    <2>5. ASSUME view'[p] # view[p] PROVE LastSeen(p, view[p])'
      BY <2>1, <2>3, <2>5 DEF LastSeen, LateDests
    <2> QED BY <2>1, <2>4, <2>5
  <1>4. GatherFirst' /\ InOrder' /\ ViewIsLast' /\ AllMounted'
    BY <1>1, <1>3 DEF GatherFirst, InOrder, ViewIsLast, AllMounted, Sources, Lists
  <1> QED BY <1>2, <1>4 DEF MountInv

LEMMA MountsInvariant == MountSpec => []MountInv
  <1>1. MountInit => MountInv
    BY BindsBound DEF MountInit, MountInv, MountTypes, TypeSource, TypeContent, TypeMounted,
       TypeView, Stages, Sources, Resolv, GatherFirst, InOrder, ViewIsLast, SeenThrough, AllMounted
  <1>2. MountInv /\ [MountNext]_mountVars => MountInv'
    <2> SUFFICES ASSUME MountInv, [MountNext]_mountVars PROVE MountInv'
      OBVIOUS
    <2>1. CASE UNCHANGED mountVars
      <3>1. source' = source /\ content' = content /\ mounted' = mounted /\ view' = view
        BY <2>1 DEF mountVars
      <3>2. MountTypes'
        BY <3>1 DEF MountInv, MountTypes, TypeSource, TypeContent, TypeMounted, TypeView, Indices
      <3>3. GatherFirst'
        BY <3>1 DEF MountInv, GatherFirst
      <3>4. InOrder'
        BY <3>1 DEF MountInv, InOrder, Indices, Before, Spelled, Dest
      <3>5. ASSUME NEW p \in Paths
            PROVE  /\ SeenThrough(p, view[p])' <=> SeenThrough(p, view[p])
                   /\ LastSeen(p, view[p])' <=> LastSeen(p, view[p])
        BY <3>1 DEF SeenThrough, LastSeen, Covers, Before, Spelled, Dest
      <3>6. ViewIsLast'
        BY <3>1, <3>5 DEF MountInv, ViewIsLast
      <3>7. AllMounted'
        BY <3>1 DEF MountInv, AllMounted, Indices
      <3> QED BY <3>2, <3>3, <3>4, <3>6, <3>7 DEF MountInv
    <2> QED BY <2>1, GatherStep, MountStep, RunStep DEF MountNext
  <1> QED BY <1>1, <1>2, PTL DEF MountSpec

\* The variables keep their types.
THEOREM MountTypeCorrect == MountSpec => []MountTypeOK
  <1>1. MountInv => MountTypeOK
    BY DEF MountInv, MountTypes, TypeSource, TypeContent, TypeMounted, TypeView, Stages,
           MountTypeOK
  <1> QED BY <1>1, MountsInvariant, PTL

\* Every path is seen through the innermost gathered rule for it or one of the three that
\* are applied last, for any tree of paths, any spelling and any list of rules.
THEOREM InnermostRuleSeen == MountSpec => []MostSpecificWins
  <1>1. MountInv => MostSpecificWins
    <2> SUFFICES ASSUME MountInv, source = "run", NEW p \in Paths
                 PROVE  /\ <<p, ResolvPath>> \in Below => view[p] = Resolv
                        /\ view[p] \in {Script, Program, Resolv} =>
                                \E d \in LateDests(view[p]) : <<p, d>> \in Below
                        /\ \A i \in 1..Len(content) : Covers(i, p) /\ view[p] <= MaxBinds =>
                                /\ view[p] # 0
                                /\ content[view[p]].extra <= content[i].extra =>
                                        /\ <<Dest(view[p]), Dest(i)>> \in Below
                                        /\ Dest(view[p]) = Dest(i) => i <= view[p]
      BY Zenon DEF MostSpecificWins
    <2>1. LastSeen(p, view[p]) \/ SeenThrough(p, view[p])
      BY DEF MountInv, ViewIsLast
    <2>2. /\ <<p, ResolvPath>> \in Below => view[p] = Resolv
          /\ mounted = Indices /\ TypeContent
      BY DEF MountInv, ViewIsLast, AllMounted, MountTypes
    <2>3. view[p] \in {Script, Program, Resolv} => LastSeen(p, view[p])
      BY <2>1, BindsBound DEF SeenThrough, Script, Program, Resolv
    <2>4. ASSUME NEW i \in 1..Len(content), Covers(i, p), view[p] <= MaxBinds
          PROVE  /\ view[p] # 0
                 /\ content[view[p]].extra <= content[i].extra =>
                         /\ <<Dest(view[p]), Dest(i)>> \in Below
                         /\ Dest(view[p]) = Dest(i) => i <= view[p]
      <3>1. SeenThrough(p, view[p])
        BY <2>1, <2>4, BindsBound DEF LastSeen, Script, Program, Resolv
      <3>2. /\ i \in Indices /\ view[p] \in Indices /\ Covers(view[p], p)
            /\ i = view[p] \/ Before(i, view[p])
        BY <2>2, <2>4, <3>1 DEF SeenThrough, Indices
      <3>3. view[p] # 0
        BY <3>2 DEF Indices
      <3> QED BY <2>2, <2>4, <3>2, <3>3, LaterIsInner
    <2> QED BY <2>2, <2>3, <2>4 DEF LastSeen
  <1> QED BY <1>1, MountsInvariant, PTL
-----------------------------------------------------------------------------
(* The panes and the file of services.                                     *)

\* What the file will hold once the write under way is through.
Coming == IF writing # Unreadable THEN writing ELSE file

\* The requests of a pane are numbered in the order in which it sent them.
Numbered == \A r \in gets \cup answers \cup saves : r.n <= requests

\* Of a pane of which nothing was overtaken, a save is older than a load that is still to be
\* handled, an answer is older too, and an answer and a save are not on their way together.
InTurn ==
    \A p \in Panes \ crossed :
        /\ \A g \in gets : g.pane = p =>
               \A r \in saves \cup answers : r.pane = p => r.n < g.n
        /\ \A m \in saves : \A a \in answers : ~(m.pane = p /\ a.pane = p)

Youngest(r, sent) == \A o \in sent : o.pane = r.pane => o.n <= r.n

\* Its youngest save holds what it shows, and it shows two SSH agents only if all its saves
\* have two.
SavesFresh ==
    \A m \in saves : m.pane \notin crossed =>
        /\ Youngest(m, saves) => m.on = copy[m.pane]
        /\ OneAgent(m.on) => OneAgent(copy[m.pane])

Fresh(p) == p \in Panes \ (behind \cup crossed)

\* The youngest answer to a pane that knows of the last save is what the file will hold.
AnswersFresh ==
    \A a \in answers : Fresh(a.pane) /\ Youngest(a, answers) => a.on = Enabled(Coming)

\* With no answer on its way such a pane shows two SSH agents only if the file will hold two;
\* with no save on its way either it shows what the file will hold.
CopiesFresh ==
    \A p \in Panes :
        /\ Fresh(p) /\ copy[p] # Unreadable /\ OneAgent(Coming)
        /\ \A a \in answers : a.pane # p
        => /\ OneAgent(copy[p])
           /\ (\A m \in saves : m.pane # p) => copy[p] = Enabled(Coming)

PaneInv == SettingsTypeOK /\ Numbered /\ InTurn /\ SavesFresh /\ AnswersFresh /\ CopiesFresh

LEMMA UnreadableIsNoChoice ==
    /\ Unreadable \notin Choices
    /\ \A f \in Contents : Enabled(f) \in Choices
    /\ OneAgent(OnByDefault)
  <1>1. OnByDefault \cap SshAgents = {} /\ OnByDefault \subseteq Services /\ Cardinality({}) = 0
    BY KnownServices, FS_EmptySet
  <1>2. OneAgent(OnByDefault)
    BY <1>1 DEF OneAgent
  <1> QED
    BY <1>1, <1>2, NoServiceIsNone DEF Unreadable, Choices, Contents, Enabled

\* With one SSH agent at most there is one at most after a switch is flipped.
LEMMA FlipKeepsOneAgent ==
    ASSUME NEW on \in Choices, OneAgent(on), NEW s \in Services
    PROVE  Flipped(on, s) \in Choices /\ OneAgent(Flipped(on, s))
  <1>1. Flipped(on, s) \in Choices
    BY KnownServices DEF Flipped, Choices
  <1>2. CASE s \in on
    <2>1. Flipped(on, s) \cap SshAgents \subseteq on \cap SshAgents
      BY <1>2 DEF Flipped
    <2>2. IsFiniteSet(on \cap SshAgents)
      BY KnownServices, FS_Subset DEF Choices
    <2>3. /\ Cardinality(Flipped(on, s) \cap SshAgents) <= Cardinality(on \cap SshAgents)
          /\ Cardinality(Flipped(on, s) \cap SshAgents) \in Nat
          /\ Cardinality(on \cap SshAgents) \in Nat
      BY <2>1, <2>2, FS_Subset, FS_CardinalityType
    <2> QED BY <1>1, <2>3 DEF OneAgent
  <1>3. CASE s \notin on /\ s \in SshAgents
    <2>1. Flipped(on, s) \cap SshAgents = {s}
      BY <1>3 DEF Flipped
    <2> QED BY <1>1, <2>1, FS_Singleton DEF OneAgent
  <1>4. CASE s \notin on /\ s \notin SshAgents
    <2>1. Flipped(on, s) \cap SshAgents = on \cap SshAgents
      BY <1>4 DEF Flipped
    <2> QED BY <1>1, <2>1 DEF OneAgent
  <1> QED BY <1>2, <1>3, <1>4

LEMMA FlipIsChoice ==
    ASSUME NEW on \in Choices, NEW s \in Services
    PROVE  Flipped(on, s) \in Choices
  BY KnownServices DEF Flipped, Choices

\* The types in a form that the provers take.
LEMMA SentTypes ==
    ASSUME SettingsTypeOK
    PROVE  /\ \A g \in gets : g.pane \in Panes /\ g.n \in Nat
           /\ \A r \in answers \cup saves : /\ r.pane \in Panes /\ r.n \in Nat
                                            /\ r.on \in Choices
           /\ \A g, h \in gets : g.pane = h.pane /\ g.n = h.n => g = h
           /\ requests \in Nat
  <1>1. 1..MaxRequests \subseteq Nat /\ 0..MaxRequests \subseteq Nat
    BY RequestBound
  <1>2. ASSUME NEW g \in Query, NEW h \in Query, g.pane = h.pane, g.n = h.n
        PROVE  g = h
    BY <1>2 DEF Query
  <1>3. \A g \in Query : g.pane \in Panes /\ g.n \in Nat
    BY <1>1 DEF Query
  <1>4. \A r \in Carried : r.pane \in Panes /\ r.n \in Nat /\ r.on \in Choices
    BY <1>1 DEF Carried
  <1> QED BY <1>1, <1>2, <1>3, <1>4 DEF SettingsTypeOK

\* A request that does not make its pane count as crossed is the oldest.
LEMMA InTurnIsOldest ==
    ASSUME NEW r, NEW sent, \A o \in sent : o.n \in Nat, r.n \in Nat,
           r.pane \notin Overtakes(r, sent)
    PROVE  \A o \in sent : o.pane = r.pane => r.n <= o.n
  BY DEF Overtakes, Of

\* When the oldest leaves, the youngest of the rest is the youngest there was.
LEMMA YoungestStays ==
    ASSUME NEW sent, NEW r \in sent, NEW y \in sent \ {r},
           \A o \in sent : o.n \in Nat,
           \A o \in sent : o.pane = r.pane => r.n <= o.n,
           Youngest(y, sent \ {r})
    PROVE  Youngest(y, sent)
  BY DEF Youngest

\* As long as neither the file nor a write changes, all that is compared with them stays.
LEMMA ComingKept ==
    ASSUME UNCHANGED <<file, writing>>
    PROVE  /\ Coming' = Coming
           /\ OneAgent(Coming)' <=> OneAgent(Coming)
           /\ Enabled(Coming)' = Enabled(Coming)
  <1>1. Coming' = Coming
    BY DEF Coming
  <1> QED BY <1>1 DEF OneAgent, Enabled

\* The pane's own steps.  A pane that starts afresh has but one load on its way.
LEMMA LoadFresh == ASSUME PaneInv, NEW p \in Panes, Load(p) PROVE PaneInv'
  <1> DEFINE new == [pane |-> p, n |-> requests + 1]
  <1>1. /\ UNCHANGED <<file, writing, copy, answers, saves>>
        /\ requests' = requests + 1 /\ requests < MaxRequests /\ gets' = gets \cup {new}
        /\ crossed' \subseteq crossed /\ crossed \subseteq crossed' \cup {p}
        /\ behind \subseteq behind'
        /\ crossed' # crossed => AtRest(p) /\ behind' = behind \cup {p} /\ p \in Panes
    BY DEF Load
  <1>2. new \in Query /\ requests' \in 0..MaxRequests /\ new.pane = p /\ new.n = requests + 1
    BY <1>1, RequestBound DEF PaneInv, SettingsTypeOK, Query
  <1> HIDE DEF new
  <1>3. behind' \subseteq Panes /\ crossed' \subseteq Panes
    BY DEF Load, PaneInv, SettingsTypeOK
  <1>4. SettingsTypeOK'
    BY <1>1, <1>2, <1>3 DEF PaneInv, Load, launchVars, SettingsTypeOK
  <1>5. Numbered'
    BY <1>1, <1>2, SentTypes DEF PaneInv, Numbered
  <1>6. ASSUME p \in crossed, p \notin crossed'
        PROVE  /\ p \in behind'
               /\ \A r \in gets \cup answers \cup saves : r.pane # p
    BY <1>1, <1>6 DEF AtRest, Of
  <1>7. \A q \in Panes : q # p => (q \in crossed' <=> q \in crossed)
    BY <1>1
  <1>8. InTurn'
    <2> SUFFICES ASSUME NEW q \in Panes, q \notin crossed'
        PROVE  /\ \A g \in gets' : g.pane = q =>
                      \A r \in saves \cup answers : r.pane = q => r.n < g.n
               /\ \A m \in saves : \A a \in answers : ~(m.pane = q /\ a.pane = q)
      BY <1>1 DEF InTurn
    <2>1. CASE q \in crossed
      BY <1>6, <1>7, <2>1
    <2>2. CASE q \notin crossed
      <3>1. \A r \in saves \cup answers : r.n < new.n
        BY <1>2, SentTypes DEF PaneInv, Numbered
      <3> QED BY <1>1, <2>2, <3>1 DEF PaneInv, InTurn
    <2> QED BY <2>1, <2>2
  <1>9. SavesFresh'
    BY <1>1, <1>6, <1>7 DEF PaneInv, SavesFresh, Youngest, SettingsTypeOK, Carried, OneAgent
  <1>10. \A q : Fresh(q)' => Fresh(q)
    BY <1>1, <1>6 DEF Fresh
  <1>11. AnswersFresh' /\ CopiesFresh'
    BY <1>1, <1>10, ComingKept DEF PaneInv, AnswersFresh, CopiesFresh, Youngest
  <1> QED BY <1>4, <1>5, <1>8, <1>9, <1>11 DEF PaneInv

\* After the last of its answers the pane shows what the youngest held.
LEMMA LoadedFresh == ASSUME PaneInv, NEW a \in answers, Loaded(a) PROVE PaneInv'
  <1> DEFINE p == a.pane
  <1>1. p \in Panes /\ a.on \in Choices /\ a.n \in Nat /\ \A b \in answers : b.n \in Nat
    BY SentTypes DEF PaneInv
  <1>2. /\ UNCHANGED <<file, writing, gets, saves, requests, behind>>
        /\ answers' = answers \ {a} /\ copy' = [copy EXCEPT ![p] = a.on]
        /\ crossed' = crossed \cup Overtakes(a, answers)
    BY DEF Loaded
  <1>3. Overtakes(a, answers) \subseteq {p}
    BY DEF Overtakes
  <1> HIDE DEF p
  <1>4. SettingsTypeOK'
    BY <1>1, <1>2, <1>3 DEF PaneInv, Loaded, launchVars, SettingsTypeOK, Contents
  <1>5. copy'[p] = a.on /\ \A q \in Panes : q # p => copy'[q] = copy[q]
    BY <1>1, <1>2 DEF PaneInv, SettingsTypeOK
  <1>6. Numbered' /\ InTurn'
    BY <1>2 DEF PaneInv, Numbered, InTurn
  <1>7. SavesFresh'
    <2> SUFFICES ASSUME NEW m \in saves, m.pane \notin crossed'
        PROVE  /\ Youngest(m, saves) => m.on = copy'[m.pane]
               /\ OneAgent(m.on) => OneAgent(copy'[m.pane])
      BY <1>2 DEF SavesFresh, OneAgent, Youngest
    <2>1. m.pane # p /\ m.pane \in Panes /\ m.pane \notin crossed
      BY <1>1, <1>2, SentTypes DEF PaneInv, InTurn, p
    <2> QED BY <1>5, <2>1 DEF PaneInv, SavesFresh
  <1>8. \A q : Fresh(q)' => Fresh(q)
    BY <1>2 DEF Fresh
  <1>9. Fresh(p)' => \A b \in answers : b.pane = p => a.n <= b.n
    BY <1>1, <1>2, InTurnIsOldest DEF Fresh, p
  <1>10. AnswersFresh'
    <2> SUFFICES ASSUME NEW b \in answers', Fresh(b.pane)', Youngest(b, answers')
        PROVE  b.on = Enabled(Coming)
      BY <1>2, ComingKept DEF AnswersFresh, Youngest
    <2>1. Youngest(b, answers)
      <3>1. CASE b.pane # p
        BY <1>2, <3>1 DEF Youngest, p
      <3>2. CASE b.pane = p
        BY <1>1, <1>2, <1>9, <3>2, YoungestStays DEF p
      <3> QED BY <3>1, <3>2
    <2> QED BY <1>2, <1>8, <2>1 DEF PaneInv, AnswersFresh
  <1>11. CopiesFresh'
    <2> SUFFICES ASSUME NEW q \in Panes, Fresh(q)', copy'[q] # Unreadable, OneAgent(Coming),
                        \A b \in answers' : b.pane # q
        PROVE  /\ OneAgent(copy'[q])
               /\ (\A m \in saves : m.pane # q) => copy'[q] = Enabled(Coming)
      BY <1>2, ComingKept DEF CopiesFresh, OneAgent
    <2>1. CASE q # p
      BY <1>2, <1>5, <1>8, <2>1 DEF PaneInv, CopiesFresh, p
    <2>2. CASE q = p
      <3>1. Youngest(a, answers)
        BY <1>1, <1>2, <2>2 DEF Youngest, p
      <3>2. copy'[q] = Enabled(Coming)
        BY <1>5, <1>8, <2>2, <3>1 DEF PaneInv, AnswersFresh, p
      <3>3. OneAgent(copy'[q])
        BY <3>2, UnreadableIsNoChoice DEF Enabled
      <3> QED BY <3>2, <3>3
    <2> QED BY <2>1, <2>2
  <1> QED BY <1>4, <1>6, <1>7, <1>10, <1>11 DEF PaneInv

\* The pane's new save holds what the pane shows now.
LEMMA ToggleFresh ==
    ASSUME PaneInv, NEW p \in Panes, NEW s \in Services, Toggle(p, s)
    PROVE  PaneInv'
  <1> DEFINE new == [pane |-> p, n |-> requests + 1, on |-> Flipped(copy[p], s)]
  <1>1. copy[p] \in Choices /\ Flipped(copy[p], s) \in Choices
    BY FlipIsChoice DEF Toggle, PaneInv, SettingsTypeOK, Contents
  <1>2. new \in Carried /\ requests' \in 0..MaxRequests
    BY <1>1, RequestBound DEF Toggle, PaneInv, SettingsTypeOK, Carried
  <1>3. /\ UNCHANGED <<file, writing, gets, answers, behind>> /\ saves' = saves \cup {new}
        /\ requests' = requests + 1
        /\ copy' = [copy EXCEPT ![p] = Flipped(copy[p], s)]
        /\ crossed \subseteq crossed' /\ crossed' \subseteq crossed \cup {p}
        /\ (p \notin crossed' => \A r \in gets \cup answers : r.pane # p)
    BY DEF Toggle, Of
  <1>4. new.pane = p /\ new.on = Flipped(copy[p], s) /\ new.n = requests + 1
    OBVIOUS
  <1> HIDE DEF new
  <1>5. SettingsTypeOK'
    BY <1>1, <1>2, <1>3 DEF Toggle, PaneInv, SettingsTypeOK, launchVars, Contents
  <1>6. \A q \in Panes : q # p => copy'[q] = copy[q]
    BY <1>3 DEF PaneInv, SettingsTypeOK
  <1>7. copy'[p] = Flipped(copy[p], s)
    BY <1>3 DEF PaneInv, SettingsTypeOK
  <1>8. Numbered'
    BY <1>3, <1>4, SentTypes DEF PaneInv, Numbered
  <1>9. InTurn'
    BY <1>3, <1>4 DEF PaneInv, InTurn
  <1>10. OneAgent(copy[p]) => OneAgent(new.on)
    BY <1>1, <1>4, FlipKeepsOneAgent
  <1>11. SavesFresh'
    <2> SUFFICES ASSUME NEW m \in saves', m.pane \notin crossed'
        PROVE  /\ Youngest(m, saves') => m.on = copy'[m.pane]
               /\ OneAgent(m.on) => OneAgent(copy'[m.pane])
      BY DEF SavesFresh, OneAgent, Youngest
    <2>1. CASE m = new
      BY <1>4, <1>7, <2>1
    <2>2. CASE m \in saves /\ m.pane # p
      BY <1>3, <1>6, <2>2, SentTypes DEF PaneInv, SavesFresh, Youngest
    <2>3. CASE m \in saves /\ m.pane = p
      <3>1. ~Youngest(m, saves')
        BY <1>3, <1>4, <2>3, SentTypes DEF PaneInv, Numbered, Youngest
      <3> QED BY <1>3, <1>4, <1>7, <1>10, <2>3, <3>1 DEF PaneInv, SavesFresh
    <2> QED BY <1>3, <2>1, <2>2, <2>3
  <1>12. \A q : Fresh(q)' => Fresh(q)
    BY <1>3 DEF Fresh
  <1>13. AnswersFresh'
    BY <1>3, <1>12, ComingKept DEF PaneInv, AnswersFresh, Youngest
  <1>14. CopiesFresh'
    <2> SUFFICES ASSUME NEW q \in Panes, Fresh(q)', copy'[q] # Unreadable, OneAgent(Coming),
                        \A b \in answers : b.pane # q
        PROVE  /\ OneAgent(copy'[q])
               /\ (\A m \in saves' : m.pane # q) => copy'[q] = Enabled(Coming)
      BY <1>3, ComingKept DEF CopiesFresh, OneAgent
    <2>1. CASE q # p
      BY <1>3, <1>6, <1>12, <2>1 DEF PaneInv, CopiesFresh
    <2>2. CASE q = p
      <3>1. OneAgent(copy[p])
        BY <1>1, <1>12, <2>2, UnreadableIsNoChoice DEF PaneInv, CopiesFresh
      <3> QED BY <1>3, <1>4, <1>7, <1>10, <2>2, <3>1
    <2> QED BY <2>1, <2>2
  <1> QED BY <1>5, <1>8, <1>9, <1>11, <1>13, <1>14 DEF PaneInv

\* The server answers with what the file holds.
LEMMA GetFresh == ASSUME PaneInv, NEW g \in gets, HandleGet(g) PROVE PaneInv'
  <1> DEFINE p == g.pane
             new == [pane |-> g.pane, n |-> g.n, on |-> Enabled(file)]
  <1>1. /\ p \in Panes /\ g.n \in Nat /\ \A o \in gets \cup saves : o.n \in Nat
        /\ g.n <= requests
    BY SentTypes DEF PaneInv, Numbered
  <1>2. /\ UNCHANGED <<file, writing, copy, saves, requests>> /\ writing = Unreadable
        /\ gets' = gets \ {g} /\ answers' = answers \cup {new}
        /\ behind' = behind \ {p} /\ crossed' = crossed \cup Overtakes(g, gets \cup saves)
    BY DEF HandleGet
  <1>3. Overtakes(g, gets \cup saves) \subseteq {p}
    BY DEF Overtakes
  <1>4. new \in Carried
    BY UnreadableIsNoChoice DEF PaneInv, SettingsTypeOK, Query, Carried
  <1>5. new.pane = p /\ new.n = g.n /\ new.on = Enabled(file)
    OBVIOUS
  <1> HIDE DEF p, new
  <1>6. SettingsTypeOK'
    BY <1>1, <1>2, <1>3, <1>4 DEF PaneInv, HandleGet, launchVars, SettingsTypeOK
  <1>7. p \notin crossed' => /\ p \notin crossed
                             /\ \A m \in saves : m.pane # p
                             /\ \A h \in gets' : h.pane = p => g.n < h.n
                             /\ \A b \in answers : b.pane = p => b.n < g.n
    <2> SUFFICES ASSUME p \notin crossed'
        PROVE  /\ p \notin crossed
               /\ \A m \in saves : m.pane # p
               /\ \A h \in gets' : h.pane = p => g.n < h.n
               /\ \A b \in answers : b.pane = p => b.n < g.n
      OBVIOUS
    <2>1. p \notin crossed /\ \A o \in gets \cup saves : o.pane = p => g.n <= o.n
      BY <1>1, <1>2, InTurnIsOldest DEF p
    <2>2. \A r \in saves \cup answers : r.pane = p => r.n < g.n
      BY <1>1, <2>1 DEF PaneInv, InTurn, p
    <2>3. \A m \in saves : m.pane # p
      BY <1>1, <2>1, <2>2, SentTypes DEF PaneInv
    <2>4. \A h \in gets' : h.pane = p => g.n < h.n
      BY <1>1, <1>2, <2>1, SentTypes DEF PaneInv, p
    <2> QED BY <2>1, <2>2, <2>3, <2>4
  <1>8. Numbered'
    BY <1>1, <1>2, <1>5 DEF PaneInv, Numbered
  <1>9. InTurn'
    BY <1>2, <1>5, <1>7 DEF PaneInv, InTurn
  <1>10. SavesFresh'
    BY <1>2 DEF PaneInv, SavesFresh, Youngest, OneAgent
  <1>11. Coming' = Coming /\ Coming = file /\ Enabled(Coming)' = Enabled(file)
    BY <1>2, ComingKept DEF Coming
  <1>12. \A q : Fresh(q)' /\ q # p => Fresh(q)
    BY <1>2 DEF Fresh
  <1>13. AnswersFresh'
    <2> SUFFICES ASSUME NEW b \in answers', Fresh(b.pane)', Youngest(b, answers')
        PROVE  b.on = Enabled(file)
      BY <1>11 DEF AnswersFresh, Youngest
    <2>1. CASE b = new
      BY <1>5, <2>1
    <2>2. CASE b \in answers /\ b.pane = p
      BY <1>1, <1>2, <1>5, <1>7, <2>2, SentTypes DEF PaneInv, Youngest, Fresh
    <2>3. CASE b \in answers /\ b.pane # p
      BY <1>2, <1>11, <1>12, <2>3 DEF PaneInv, AnswersFresh, Youngest
    <2> QED BY <1>2, <2>1, <2>2, <2>3
  <1>14. CopiesFresh'
    <2> SUFFICES ASSUME NEW q \in Panes, Fresh(q)', copy[q] # Unreadable, OneAgent(Coming),
                        \A b \in answers' : b.pane # q
        PROVE  /\ OneAgent(copy[q])
               /\ (\A m \in saves : m.pane # q) => copy[q] = Enabled(Coming)
      BY <1>2, ComingKept DEF CopiesFresh, OneAgent
    <2>1. q # p
      BY <1>2, <1>5
    <2> QED BY <1>2, <1>12, <2>1 DEF PaneInv, CopiesFresh
  <1> QED BY <1>6, <1>8, <1>9, <1>10, <1>13, <1>14 DEF PaneInv

\* A save leaves, in turn unless its pane counts as crossed.
LEMMA SaveLeaves ==
    ASSUME PaneInv, NEW m \in saves, saves' = saves \ {m},
           crossed' = crossed \cup Overtakes(m, gets \cup saves),
           UNCHANGED <<copy, gets, answers, requests>>
    PROVE  /\ Numbered' /\ InTurn' /\ SavesFresh'
           /\ crossed' \subseteq Panes /\ m.pane \in Panes
           /\ m.pane \notin crossed' =>
                  /\ \A a \in answers : a.pane # m.pane
                  /\ OneAgent(m.on) => OneAgent(copy[m.pane])
                  /\ (\A l \in saves' : l.pane # m.pane) => m.on = copy[m.pane]
  <1>1. /\ m.pane \in Panes /\ m.n \in Nat /\ \A o \in gets \cup saves : o.n \in Nat
        /\ crossed \subseteq Panes
    BY SentTypes DEF PaneInv, SettingsTypeOK
  <1>2. crossed' \subseteq Panes
    BY <1>1 DEF Overtakes
  <1>3. Numbered' /\ InTurn'
    BY DEF PaneInv, Numbered, InTurn
  <1>4. m.pane \notin crossed' => \A l \in saves : l.pane = m.pane => m.n <= l.n
    BY <1>1, InTurnIsOldest
  <1>5. SavesFresh'
    <2> SUFFICES ASSUME NEW l \in saves', l.pane \notin crossed'
        PROVE  /\ Youngest(l, saves') => l.on = copy[l.pane]
               /\ OneAgent(l.on) => OneAgent(copy[l.pane])
      BY DEF SavesFresh, OneAgent, Youngest
    <2>1. Youngest(l, saves') => Youngest(l, saves)
      <3>1. CASE l.pane # m.pane
        BY <3>1 DEF Youngest
      <3>2. CASE l.pane = m.pane
        BY <1>1, <1>4, <3>2, YoungestStays
      <3> QED BY <3>1, <3>2
    <2> QED BY <2>1 DEF PaneInv, SavesFresh
  <1>6. ASSUME m.pane \notin crossed'
        PROVE  /\ \A a \in answers : a.pane # m.pane
               /\ OneAgent(m.on) => OneAgent(copy[m.pane])
               /\ (\A l \in saves' : l.pane # m.pane) => m.on = copy[m.pane]
    <2>1. (\A l \in saves' : l.pane # m.pane) => Youngest(m, saves)
      BY <1>1 DEF Youngest
    <2> QED BY <1>1, <1>6, <2>1 DEF PaneInv, InTurn, SavesFresh
  <1> QED BY <1>1, <1>2, <1>3, <1>5, <1>6

\* A save is refused only if the file holds two agents, or the pane is not up to date.
LEMMA RefuseFresh == ASSUME PaneInv, NEW m \in saves, Refuse(m) PROVE PaneInv'
  <1>1. /\ UNCHANGED <<file, writing, copy, gets, answers, requests, behind>>
        /\ saves' = saves \ {m} /\ ~OneAgent(m.on)
        /\ crossed' = crossed \cup Overtakes(m, gets \cup saves)
    BY DEF Refuse
  <1>2. SettingsTypeOK'
    BY <1>1, SaveLeaves DEF PaneInv, Refuse, launchVars, SettingsTypeOK
  <1>3. \A q : Fresh(q)' => Fresh(q)
    BY <1>1 DEF Fresh
  <1>4. AnswersFresh'
    BY <1>1, <1>3, ComingKept DEF PaneInv, AnswersFresh, Youngest
  <1>5. CopiesFresh'
    <2> SUFFICES ASSUME NEW q \in Panes, Fresh(q)', copy[q] # Unreadable, OneAgent(Coming),
                        \A a \in answers : a.pane # q
        PROVE  /\ OneAgent(copy[q])
               /\ (\A l \in saves' : l.pane # q) => copy[q] = Enabled(Coming)
      BY <1>1, ComingKept DEF CopiesFresh, OneAgent
    <2>1. OneAgent(copy[q])
      BY <1>3 DEF PaneInv, CopiesFresh
    <2>2. q = m.pane => \E l \in saves' : l.pane = q
      BY <1>1, <2>1, SaveLeaves DEF Fresh
    <2>3. q # m.pane /\ (\A l \in saves' : l.pane # q) => \A l \in saves : l.pane # q
      BY <1>1
    <2> QED BY <1>3, <2>1, <2>2, <2>3 DEF PaneInv, CopiesFresh
  <1> QED BY <1>1, <1>2, <1>4, <1>5, SaveLeaves DEF PaneInv

\* After a replacement only the pane that made it may be up to date.
LEMMA ReplaceFresh == ASSUME PaneInv, NEW m \in saves, Replace(m) PROVE PaneInv'
  <1>1. m.on \in Choices /\ m.on # Unreadable /\ Enabled(m.on) = m.on /\ OneAgent(m.on)
    BY UnreadableIsNoChoice, SentTypes DEF PaneInv, Enabled, Replace
  <1>2. /\ UNCHANGED <<copy, gets, answers, requests>> /\ Coming' = m.on
        /\ saves' = saves \ {m} /\ behind' = Panes \ {m.pane}
        /\ crossed' = crossed \cup Overtakes(m, gets \cup saves)
    BY <1>1 DEF Replace, Coming
  <1>3. SettingsTypeOK'
    BY <1>1, <1>2, SaveLeaves
    DEF PaneInv, Replace, FileBecomes, launchVars, SettingsTypeOK, Contents
  <1>4. Fresh(m.pane)' => m.pane \notin crossed'
    BY DEF Fresh
  <1>5. \A q : Fresh(q)' => q = m.pane
    BY <1>2 DEF Fresh
  <1>6. AnswersFresh'
    BY <1>2, <1>4, <1>5, SaveLeaves DEF AnswersFresh
  <1>7. CopiesFresh'
    <2>1. Enabled(Coming)' = m.on
      BY <1>1, <1>2 DEF Enabled
    <2>2. OneAgent(copy)' <=> OneAgent(copy)
      BY <1>2 DEF OneAgent
    <2> SUFFICES ASSUME NEW q \in Panes, Fresh(q)'
        PROVE  /\ OneAgent(copy[q])
               /\ (\A l \in saves' : l.pane # q) => copy[q] = m.on
      BY <1>2, <2>1 DEF CopiesFresh, OneAgent
    <2> QED BY <1>1, <1>2, <1>4, <1>5, SaveLeaves
  <1> QED BY <1>2, <1>3, <1>6, <1>7, SaveLeaves DEF PaneInv

\* A pane whose save is not written is behind.
LEMMA NotSavedFresh == ASSUME PaneInv, NEW m \in saves, NotSaved(m) PROVE PaneInv'
  <1>1. /\ UNCHANGED <<file, writing, copy, gets, answers, requests>>
        /\ saves' = saves \ {m} /\ behind' = behind \cup {m.pane}
        /\ crossed' = crossed \cup Overtakes(m, gets \cup saves)
    BY DEF NotSaved
  <1>2. SettingsTypeOK'
    BY <1>1, SaveLeaves DEF PaneInv, NotSaved, launchVars, SettingsTypeOK
  <1>3. \A q : Fresh(q)' => Fresh(q) /\ q # m.pane
    BY <1>1 DEF Fresh
  <1>4. AnswersFresh'
    BY <1>1, <1>3, ComingKept DEF PaneInv, AnswersFresh, Youngest
  <1>5. CopiesFresh'
    <2> SUFFICES ASSUME NEW q \in Panes, Fresh(q)', copy[q] # Unreadable, OneAgent(Coming),
                        \A a \in answers : a.pane # q
        PROVE  /\ OneAgent(copy[q])
               /\ (\A l \in saves' : l.pane # q) => copy[q] = Enabled(Coming)
      BY <1>1, ComingKept DEF CopiesFresh, OneAgent
    <2>1. (\A l \in saves' : l.pane # q) => \A l \in saves : l.pane # q
      BY <1>1, <1>3
    <2> QED BY <1>3, <2>1 DEF PaneInv, CopiesFresh
  <1> QED BY <1>1, <1>2, <1>4, <1>5, SaveLeaves DEF PaneInv

\* A pane that gets no answer is behind.
LEMMA GetFailsFresh == ASSUME PaneInv, NEW r \in gets \cup answers, GetFails(r) PROVE PaneInv'
  <1>1. /\ UNCHANGED <<file, writing, copy, saves, requests, crossed>>
        /\ gets' = gets \ {r} /\ answers' = answers \ {r} /\ behind' = behind \cup {r.pane}
    BY DEF GetFails
  <1>2. r.pane \in Panes
    BY SentTypes DEF PaneInv
  <1>3. SettingsTypeOK'
    BY <1>1, <1>2 DEF PaneInv, GetFails, launchVars, SettingsTypeOK
  <1>4. Numbered' /\ InTurn'
    BY <1>1 DEF PaneInv, Numbered, InTurn
  <1>5. SavesFresh'
    BY <1>1 DEF PaneInv, SavesFresh, Youngest, OneAgent
  <1>6. \A q : Fresh(q)' => Fresh(q) /\ q # r.pane
    BY <1>1 DEF Fresh
  <1>7. AnswersFresh'
    <2> SUFFICES ASSUME NEW a \in answers', Fresh(a.pane)', Youngest(a, answers')
        PROVE  a.on = Enabled(Coming)
      BY <1>1, ComingKept DEF AnswersFresh, Youngest
    <2>1. Youngest(a, answers)
      BY <1>1, <1>6 DEF Youngest
    <2> QED BY <1>1, <1>6, <2>1 DEF PaneInv, AnswersFresh
  <1>8. CopiesFresh'
    <2> SUFFICES ASSUME NEW q \in Panes, Fresh(q)', copy[q] # Unreadable, OneAgent(Coming),
                        \A a \in answers' : a.pane # q
        PROVE  /\ OneAgent(copy[q])
               /\ (\A l \in saves : l.pane # q) => copy[q] = Enabled(Coming)
      BY <1>1, ComingKept DEF CopiesFresh, OneAgent
    <2>1. \A a \in answers : a.pane # q
      BY <1>1, <1>6
    <2> QED BY <1>6, <2>1 DEF PaneInv, CopiesFresh
  <1> QED BY <1>3, <1>4, <1>5, <1>7, <1>8 DEF PaneInv

\* The end of a write changes nothing for what the file was to hold.
LEMMA WriteEndsFresh == ASSUME PaneInv, Written \/ CutShort PROVE PaneInv'
  <1>1. /\ writing # Unreadable /\ writing' = Unreadable
        /\ UNCHANGED <<copy, gets, answers, saves, requests, crossed>>
    BY DEF Written, CutShort, paneVars, requestVars
  <1>2. Numbered' /\ InTurn' /\ SavesFresh'
    BY <1>1 DEF PaneInv, Numbered, InTurn, SavesFresh, Youngest, OneAgent
  <1>3. CASE CutShort
    <2>1. SettingsTypeOK'
      BY <1>3 DEF PaneInv, CutShort, requestVars, launchVars, SettingsTypeOK, Contents
    <2>2. \A q : ~Fresh(q)'
      BY <1>3 DEF CutShort, Fresh
    <2> QED BY <1>2, <2>1, <2>2 DEF PaneInv, AnswersFresh, CopiesFresh
  <1>4. CASE Written
    <2>1. SettingsTypeOK'
      BY <1>4 DEF PaneInv, Written, FileBecomes, paneVars, requestVars, launchVars,
                  SettingsTypeOK, Contents
    <2>2. /\ Coming' = Coming
          /\ \A q : Fresh(q)' <=> Fresh(q)
      BY <1>4 DEF Written, FileBecomes, paneVars, Coming, Fresh
    <2>3. AnswersFresh' /\ CopiesFresh'
      BY <1>1, <2>2 DEF PaneInv, AnswersFresh, CopiesFresh, Youngest, OneAgent, Enabled
    <2> QED BY <1>2, <2>1, <2>3 DEF PaneInv
  <1> QED BY <1>3, <1>4

\* What leaves the panes, the requests and the file alone leaves the invariant alone.
LEMMA PanesKept ==
    ASSUME PaneInv, UNCHANGED <<file, writing, paneVars>>, SettingsTypeOK'
    PROVE  PaneInv'
  <1>1. UNCHANGED <<copy, behind, crossed, gets, answers, saves, requests>>
    BY DEF paneVars, requestVars
  <1>2. Numbered' /\ InTurn' /\ SavesFresh'
    BY <1>1 DEF PaneInv, Numbered, InTurn, SavesFresh, Youngest, OneAgent
  <1>3. AnswersFresh' /\ CopiesFresh'
    BY <1>1, ComingKept DEF PaneInv, AnswersFresh, CopiesFresh, Youngest, Fresh, OneAgent
  <1> QED BY <1>2, <1>3 DEF PaneInv

\* The runner reads the file and leaves the panes alone.
LEMMA LaunchFresh == ASSUME PaneInv, LaunchStep PROVE PaneInv'
  <1>1. UNCHANGED <<file, writing, paneVars>>
    BY DEF LaunchStep, BeginStart, LoadServices, Launched, LookUp
  <1>2. /\ start' \in {"off", "flags", "binds", "up"}
        /\ flags' \subseteq Flagged /\ looked' \subseteq Flagged /\ binds' \subseteq Mounted
        /\ begun' \in Contents /\ kept' \in BOOLEAN
    BY DEF PaneInv, SettingsTypeOK, LaunchStep, BeginStart, LoadServices, Launched, LookUp
  <1>3. SettingsTypeOK'
    BY <1>1, <1>2 DEF PaneInv, SettingsTypeOK, paneVars, requestVars
  <1> QED BY <1>1, <1>3, PanesKept

LEMMA PaneInvariant == SettingsSpec => []PaneInv
  <1>1. SettingsInit => PaneInv
    BY RequestBound DEF SettingsInit, PaneInv, SettingsTypeOK, Contents, Choices, Numbered,
        InTurn, SavesFresh, AnswersFresh, CopiesFresh
  <1>2. PaneInv /\ [SettingsNext]_settingVars => PaneInv'
    <2> SUFFICES ASSUME PaneInv, [SettingsNext]_settingVars PROVE PaneInv'
      OBVIOUS
    <2>1. CASE PaneStep
      BY <2>1, LoadFresh, LoadedFresh, ToggleFresh DEF PaneStep
    <2>2. CASE ServerStep
      BY <2>2, GetFresh, RefuseFresh, ReplaceFresh, NotSavedFresh, WriteEndsFresh
      DEF ServerStep, ReplaceFails
    <2>3. CASE Losses
      BY <2>3, GetFailsFresh, NotSavedFresh DEF Losses, SaveFails
    <2>4. CASE LaunchStep
      BY <2>4, LaunchFresh
    <2>5. CASE UNCHANGED settingVars
      <3>1. SettingsTypeOK'
        BY <2>5 DEF settingVars, paneVars, requestVars, launchVars, PaneInv, SettingsTypeOK
      <3> QED BY <2>5, <3>1, PanesKept DEF settingVars
    <2> QED BY <2>1, <2>2, <2>3, <2>4, <2>5 DEF SettingsNext
  <1> QED BY <1>1, <1>2, PTL DEF SettingsSpec

\* The variables keep their types.
THEOREM SettingsTypeCorrect == SettingsSpec => []SettingsTypeOK
  <1>1. PaneInv => SettingsTypeOK
    BY DEF PaneInv
  <1> QED BY <1>1, PaneInvariant, PTL

LEMMA FreshPanesShow == PaneInv => PaneShowsFile
  <1> SUFFICES ASSUME PaneInv, NEW p \in Panes \ (behind \cup crossed), copy[p] # Unreadable,
                      AtRest(p), writing = Unreadable, OneAgent(file)
               PROVE  copy[p] = Enabled(file)
    BY DEF PaneShowsFile
  <1>1. Coming = file /\ Fresh(p)
    BY DEF Coming, Fresh
  <1>2. \A r \in gets \cup answers \cup saves : r.pane # p
    BY DEF AtRest, Of
  <1> QED BY <1>1, <1>2 DEF PaneInv, CopiesFresh

\* A pane at rest shows what is in the file of services unless it has reason not to, for
\* any number of panes, of services and of requests that overlap.
THEOREM PanesFollowFile == SettingsSpec => []PaneShowsFile
  BY FreshPanesShow, PaneInvariant, PTL

-----------------------------------------------------------------------------
(* The services a sandbox is started with.                                 *)

Reading == start \in {"flags", "binds"}

\* As long as the file is not written to, what the runner has read is what it holds.
ReadAsKept ==
    Reading /\ kept => /\ flags = looked \cap Enabled(file)
                       /\ start = "binds" => binds = Enabled(file) \cap Mounted

\* No file gets two SSH agents during a start, and nor does the sandbox.
AgentsOnce ==
    /\ OneAgent(writing)
    /\ Reading /\ OneAgent(begun) => OneAgent(file)
    /\ start = "binds" /\ OneAgent(begun) => OneAgent(binds)

LaunchInv == SettingsTypeOK /\ ReadAsKept /\ AgentsOnce

\* Fewer services are not more agents, and a file that cannot be read has none.
LEMMA FewerAgents ==
    /\ OneAgent(Unreadable) /\ OneAgent({})
    /\ \A f \in Choices : \A on : OneAgent(f) /\ on \subseteq f => OneAgent(on)
  <1>1. Unreadable \cap SshAgents = {} /\ {} \cap SshAgents = {} /\ Cardinality({}) = 0
    BY KnownServices, NoServiceIsNone, FS_EmptySet DEF Unreadable
  <1>2. ASSUME NEW f \in Choices, NEW on, OneAgent(f), on \subseteq f PROVE OneAgent(on)
    <2>1. on \cap SshAgents \subseteq f \cap SshAgents /\ IsFiniteSet(f \cap SshAgents)
      BY <1>2, KnownServices, FS_Subset DEF Choices
    <2>2. /\ Cardinality(on \cap SshAgents) <= Cardinality(f \cap SshAgents)
          /\ Cardinality(on \cap SshAgents) \in Nat /\ Cardinality(f \cap SshAgents) \in Nat
      BY <2>1, FS_Subset, FS_CardinalityType
    <2> QED BY <1>2, <2>2 DEF OneAgent
  <1>3. OneAgent(Unreadable) /\ OneAgent({})
    BY <1>1 DEF OneAgent
  <1> QED BY <1>2, <1>3

\* A change of the file, to something with one agent at most, is seen by the start.
LEMMA FileChanges ==
    ASSUME LaunchInv, UNCHANGED <<launchVars, begun>>, NEW f, FileBecomes(f), OneAgent(f),
           OneAgent(writing')
    PROVE  ReadAsKept' /\ AgentsOnce'
  <1>1. file' = f /\ ~kept'
    BY DEF FileBecomes
  <1> QED BY <1>1 DEF LaunchInv, ReadAsKept, AgentsOnce, Reading, launchVars, OneAgent

LEMMA FileKept ==
    ASSUME LaunchInv, UNCHANGED <<file, launchVars, begun, kept>>,
           writing' = writing \/ writing' = Unreadable
    PROVE  ReadAsKept' /\ AgentsOnce'
  <1>1. OneAgent(writing')
    BY FewerAgents DEF LaunchInv, AgentsOnce
  <1> QED BY <1>1 DEF LaunchInv, ReadAsKept, AgentsOnce, Reading, launchVars, OneAgent, Enabled

\* The runner's own steps.
LEMMA LaunchKeeps == ASSUME LaunchInv, LaunchStep PROVE ReadAsKept' /\ AgentsOnce'
  <1>1. CASE BeginStart
    <2>1. /\ start' = "flags" /\ flags' = {} /\ looked' = {} /\ begun' = file
          /\ UNCHANGED <<file, writing>>
      BY <1>1 DEF BeginStart
    <2> QED BY <2>1 DEF LaunchInv, ReadAsKept, AgentsOnce, Reading, OneAgent, Enabled
  <1>2. CASE LoadServices
    <2>1. /\ start = "flags" /\ start' = "binds" /\ UNCHANGED <<file, writing, flags, looked,
                                                                begun, kept>>
          /\ binds' = IF file = Unreadable THEN {} ELSE file \cap Mounted
      BY <1>2 DEF LoadServices
    <2>2. binds' = Enabled(file) \cap Mounted
      BY <2>1, KnownServices DEF Enabled
    <2>3. OneAgent(file) => OneAgent(binds')
      BY <2>1, FewerAgents DEF LaunchInv, SettingsTypeOK, Contents
    <2> QED
      BY <2>1, <2>2, <2>3 DEF LaunchInv, ReadAsKept, AgentsOnce, Reading, OneAgent, Enabled
  <1>3. CASE Launched
    BY <1>3 DEF Launched, LaunchInv, ReadAsKept, AgentsOnce, Reading, OneAgent
  <1>4. ASSUME NEW s \in Flagged, LookUp(s) PROVE ReadAsKept' /\ AgentsOnce'
    <2>1. /\ Reading /\ s \notin looked /\ looked' = looked \cup {s}
          /\ flags' = IF s \in Enabled(file) THEN flags \cup {s} ELSE flags
          /\ UNCHANGED <<file, writing, start, binds, begun, kept>>
      BY <1>4 DEF LookUp, Reading
    <2>2. AgentsOnce'
      BY <2>1 DEF LaunchInv, AgentsOnce, Reading, OneAgent
    <2>3. ReadAsKept'
      BY <2>1 DEF LaunchInv, ReadAsKept, Reading, Enabled
    <2> QED BY <2>2, <2>3
  <1> QED BY <1>1, <1>2, <1>3, <1>4 DEF LaunchStep

LEMMA LaunchInvariant == SettingsSpec => []LaunchInv
  <1>1. SettingsInit => ReadAsKept /\ AgentsOnce
    BY FewerAgents DEF SettingsInit, ReadAsKept, AgentsOnce, Reading
  <1>2. LaunchInv /\ [SettingsNext]_settingVars => ReadAsKept' /\ AgentsOnce'
    <2> SUFFICES ASSUME LaunchInv, [SettingsNext]_settingVars PROVE ReadAsKept' /\ AgentsOnce'
      OBVIOUS
    <2>1. CASE PaneStep
      BY <2>1, FileKept DEF PaneStep, Load, Loaded, Toggle
    <2>2. CASE ServerStep
      <3>1. ASSUME NEW g \in gets, HandleGet(g) PROVE ReadAsKept' /\ AgentsOnce'
        BY <3>1, FileKept DEF HandleGet
      <3>2. ASSUME NEW m \in saves, Refuse(m) \/ ReplaceFails(m)
            PROVE  ReadAsKept' /\ AgentsOnce'
        BY <3>2, FileKept DEF Refuse, ReplaceFails, NotSaved
      <3>3. ASSUME NEW m \in saves, Replace(m) PROVE ReadAsKept' /\ AgentsOnce'
        BY <3>3, FileChanges, FewerAgents DEF Replace
      <3>4. CASE Written
        <4>1. OneAgent(writing) /\ OneAgent(writing')
          BY <3>4, FewerAgents DEF Written, LaunchInv, AgentsOnce
        <4> QED BY <3>4, <4>1, FileChanges DEF Written
      <3>5. CASE CutShort
        BY <3>5, FileKept DEF CutShort
      <3> QED BY <2>2, <3>1, <3>2, <3>3, <3>4, <3>5 DEF ServerStep
    <2>3. CASE Losses
      BY <2>3, FileKept DEF Losses, GetFails, SaveFails, NotSaved
    <2>4. CASE LaunchStep
      BY <2>4, LaunchKeeps
    <2>5. CASE UNCHANGED settingVars
      BY <2>5, FileKept DEF settingVars
    <2> QED BY <2>1, <2>2, <2>3, <2>4, <2>5 DEF SettingsNext
  <1> QED BY <1>1, <1>2, SettingsTypeCorrect, PTL DEF SettingsSpec, LaunchInv

\* A sandbox gets the services that the panes show, if nothing is saved during its start,
\* and never two SSH agents that the file did not have when the start began, for any
\* services, panes and saves.
THEOREM StartedAsShown == SettingsSpec => StartsAsShown
  <1>1. PaneInv /\ LaunchInv /\ [SettingsNext]_settingVars =>
          [ Launched =>
              /\ kept /\ OneAgent(file) => \A p \in Panes \ (behind \cup crossed) :
                     copy[p] # Unreadable /\ AtRest(p) /\ writing = Unreadable =>
                         flags = copy[p] \cap Flagged /\ binds = copy[p] \cap Mounted
              /\ OneAgent(begun) => OneAgent(binds) ]_settingVars
    <2> SUFFICES ASSUME PaneInv, LaunchInv, Launched
        PROVE  /\ kept /\ OneAgent(file) => \A p \in Panes \ (behind \cup crossed) :
                      copy[p] # Unreadable /\ AtRest(p) /\ writing = Unreadable =>
                          flags = copy[p] \cap Flagged /\ binds = copy[p] \cap Mounted
               /\ OneAgent(begun) => OneAgent(binds)
      OBVIOUS
    <2>1. start = "binds" /\ looked = Flagged /\ Reading
      BY DEF Launched, Reading
    <2>2. PaneShowsFile
      BY FreshPanesShow
    <2> QED BY <2>1, <2>2 DEF LaunchInv, ReadAsKept, AgentsOnce, PaneShowsFile
  <1> QED BY <1>1, PaneInvariant, LaunchInvariant, PTL DEF SettingsSpec, StartsAsShown
=============================================================================
