------------------------ MODULE DecisionStoreProofs ------------------------
(***************************************************************************)
(* Theorems about DecisionStore, for any sets of sandboxes, domains and    *)
(* edits and any number of faults.                                         *)
(***************************************************************************)
EXTENDS DecisionStore, SequenceTheorems, TLAPS

USE DEF Verdicts, Entry, Keys, View

LEMMA EmptyViewType == EmptyView \in View
  BY DEF EmptyView

LEMMA FaultType == ASSUME faults \in 0..MaxFaults, Fault PROVE faults' \in 0..MaxFaults
  BY FaultBound DEF Fault

\* A snapshot read from the table is a record that the queue may hold, and taking
\* the head of the queue leaves a queue.
LEMMA FilingType ==
    ASSUME StoreTypeOK, NEW e \in Edits
    PROVE  Append(filing, [edit |-> e, view |-> Table(ekey[e][1])]) \in Seq(Filing)
  <1>1. ekey[e] \in Keys
    BY DEF StoreTypeOK
  <1>2. Table(ekey[e][1]) \in View
    <2>1. \A d \in Domains : <<ekey[e][1], d>> \in Keys
      BY <1>1
    <2> QED
      BY <2>1 DEF Table, StoreTypeOK
  <1>3. [edit |-> e, view |-> Table(ekey[e][1])] \in Filing
    BY <1>2 DEF Filing
  <1> QED
    BY <1>3 DEF StoreTypeOK

LEMMA HeadType ==
    ASSUME StoreTypeOK, filing # <<>>
    PROVE  /\ Head(filing).edit \in Edits
           /\ Head(filing).view \in View
           /\ Tail(filing) \in Seq(Filing)
  <1>1. Head(filing) \in Filing
    BY DEF StoreTypeOK
  <1>2. Head(filing).edit \in Edits /\ Head(filing).view \in View
    BY <1>1 DEF Filing
  <1> QED
    BY <1>2 DEF StoreTypeOK

-----------------------------------------------------------------------------
LEMMA StartStepType == ASSUME StoreTypeOK, StartStep PROVE StoreTypeOK'
  <1> USE DEF tableVars, editVars
  <1>1. ASSUME NEW s \in Sandboxes, StartSandbox(s) PROVE StoreTypeOK'
    <2>1. Listed(permFile) \subseteq Domains
      BY DEF Listed
    <2>2. spoken' \subseteq Keys \X Verdicts
      <3>1. \A d \in Listed(permFile) : <<<<s, d>>, permFile[d]>> \in Keys \X Verdicts
        BY DEF Listed, StoreTypeOK
      <3> QED
        BY <1>1, <3>1 DEF StartSandbox, StoreTypeOK
    <2> QED
      BY <1>1, <2>1, <2>2 DEF StartSandbox, StoreTypeOK
  <1>2. ASSUME NEW s \in Sandboxes, StartFails(s) PROVE StoreTypeOK'
    BY <1>2, FaultType DEF StartFails, StoreTypeOK
  <1>3. ASSUME NEW s \in Sandboxes, NEW d \in Domains, LoadDecision(s, d)
        PROVE  StoreTypeOK'
    BY <1>3 DEF LoadDecision, StoreTypeOK
  <1>4. ASSUME NEW s \in Sandboxes, LoadFails(s) PROVE StoreTypeOK'
    <2>1. PICK d \in todo[s] :
             decision' \in {decision, [decision EXCEPT ![<<s, d>>] = snapshot[s][d]]}
      BY <1>4 DEF LoadFails
    <2>2. d \in Domains /\ snapshot[s][d] \in Entry
      BY DEF StoreTypeOK
    <2>3. decision' \in [Keys -> Entry]
      BY <2>1, <2>2 DEF StoreTypeOK
    <2> QED
      BY <1>4, <2>3, FaultType DEF LoadFails, StoreTypeOK
  <1>5. ASSUME NEW s \in Sandboxes, FinishStart(s) PROVE StoreTypeOK'
    BY <1>5 DEF FinishStart, StoreTypeOK
  <1> QED
    BY <1>1, <1>2, <1>3, <1>4, <1>5 DEF StartStep

LEMMA EditStepType == ASSUME StoreTypeOK, EditStep PROVE StoreTypeOK'
  <1> USE DEF tableVars, startVars, EditPhase, EditRest
  <1>1. ASSUME NEW e \in Edits, StoreVerdict(e) PROVE StoreTypeOK'
    BY <1>1 DEF StoreVerdict, StoreTypeOK
  <1>2. ASSUME NEW e \in Edits, StoreFails(e) PROVE StoreTypeOK'
    BY <1>2, FaultType DEF StoreFails, StoreTypeOK
  <1>3. ASSUME NEW e \in Edits, ReadTable(e) PROVE StoreTypeOK'
    BY <1>3, FilingType DEF ReadTable, StoreTypeOK
  <1>4. ASSUME NEW e \in Edits, ReadFails(e) PROVE StoreTypeOK'
    BY <1>4, FaultType DEF ReadFails, StoreTypeOK
  <1>5. ASSUME WriteFile PROVE StoreTypeOK'
    BY <1>5, HeadType DEF WriteFile, StoreTypeOK
  <1>6. ASSUME WriteFileFails PROVE StoreTypeOK'
    BY <1>6, HeadType, FaultType, EmptyViewType DEF WriteFileFails, StoreTypeOK
  <1> QED
    BY <1>1, <1>2, <1>3, <1>4, <1>5, <1>6 DEF EditStep

LEMMA AskedEditType == ASSUME StoreTypeOK, PutStep \/ AnswerStep PROVE StoreTypeOK'
  <1> USE DEF tableVars, startVars, editVars, EditPhase, EditRest
  <1>1. ASSUME NEW e \in Edits, NEW k \in Keys, NEW v \in Verdicts, Put(e, k, v)
        PROVE  StoreTypeOK'
    BY <1>1 DEF Put, BeginEdit, StoreTypeOK
  <1>2. ASSUME NEW k \in Keys, NEW v \in Verdicts, Say(k, v) PROVE StoreTypeOK'
    BY <1>2 DEF Say, StoreTypeOK
  <1>3. ASSUME NEW e \in Edits, NEW k \in Keys, NEW v \in Verdicts, Decide(e, k, v)
        PROVE  StoreTypeOK'
    BY <1>3 DEF Decide, BeginEdit, StoreTypeOK
  <1> QED
    BY <1>1, <1>2, <1>3 DEF PutStep, AnswerStep

LEMMA FaultStepType ==
    ASSUME StoreTypeOK, Commit \/ StoreRestart \/ FaultElsewhere PROVE StoreTypeOK'
  <1> USE DEF tableVars, startVars, editVars, EditPhase, EditRest
  <1>1. ASSUME StoreRestart PROVE StoreTypeOK'
    BY <1>1, FaultType, EmptyViewType DEF StoreRestart, StoreTypeOK
  <1>2. ASSUME FaultElsewhere PROVE StoreTypeOK'
    BY <1>2, FaultType DEF FaultElsewhere, StoreTypeOK
  <1>3. ASSUME Commit PROVE StoreTypeOK'
    BY <1>3 DEF Commit, StoreTypeOK
  <1> QED
    BY <1>1, <1>2, <1>3

LEMMA StoreTypeStep ==
    ASSUME StoreTypeOK, [StoreNext]_storeVars PROVE StoreTypeOK'
  <1>1. CASE StoreNext
    BY <1>1, StartStepType, EditStepType, AskedEditType, FaultStepType DEF StoreNext
  <1>2. CASE UNCHANGED storeVars
    BY <1>2 DEF storeVars, tableVars, startVars, editVars, StoreTypeOK
  <1> QED
    BY <1>1, <1>2

LEMMA SomeKeyIsKey == (CHOOSE k \in Keys : TRUE) \in Keys
  <1>1. \E k \in Keys : TRUE
    <2>1. PICK s \in Sandboxes, d \in Domains : TRUE
      BY SomeKey
    <2>2. <<s, d>> \in Keys
      OBVIOUS
    <2> QED
      BY <2>2
  <1> HIDE DEF Keys
  <1> QED
    BY <1>1, Zenon

LEMMA StoreInitTypes == StoreInit => StoreTypeOK
  <1> SUFFICES ASSUME StoreInit PROVE StoreTypeOK
    OBVIOUS
  <1>1. ekey \in [Edits -> Keys]
    <2> HIDE DEF Keys
    <2> QED
      BY SomeKeyIsKey DEF StoreInit
  <1>2. filing \in Seq(Filing) /\ faults \in 0..MaxFaults
    BY FaultBound DEF StoreInit
  <1> QED
    BY <1>1, <1>2, EmptyViewType DEF StoreInit, StoreTypeOK, EditPhase, EditRest

\* Every variable of the store has its type in every reachable state.
THEOREM StoreTyped == StoreSpec => []StoreTypeOK
  BY StoreInitTypes, StoreTypeStep, PTL DEF StoreSpec

-----------------------------------------------------------------------------
(* What justifies a decision: an entry still to be loaded, a verdict still  *)
(* to be stored and a row that a restart brings back were spoken already.   *)
(* A committed row may be replaced by one that is not, but not removed.     *)

SpokenInv ==
    /\ DecisionsSpoken
    /\ \A k \in Keys : committed[k] # "none" =>
            decision[k] # "none" /\ <<k, committed[k]>> \in spoken
    /\ \A s \in Sandboxes : \A d \in todo[s] :
        snapshot[s][d] # "none" /\ <<<<s, d>>, snapshot[s][d]>> \in spoken
    /\ \A e \in Edits : epc[e] = "storing" => <<ekey[e], everdict[e]>> \in spoken

(* What a sandbox's start has left to do: an entry of the file it parsed is in *)
(* the table or still to be loaded.                                            *)

LoadedInv ==
    \A s \in Sandboxes :
        /\ \A d \in Domains : faults = 0 /\ snapshot[s][d] # "none" =>
                d \in todo[s] \/ decision[<<s, d>>] # "none"
        /\ faults = 0 /\ sbx[s] = "up" => todo[s] = {}

(* With one sandbox per directory.  The last snapshot on its way to the file, *)
(* or the file when there is none, agrees with every verdict stored, unless   *)
(* an edit has yet to read the table.                                         *)

LastView == IF filing = <<>> THEN permFile ELSE filing[Len(filing)].view

FilingInv ==
    /\ \A i \in 1..Len(filing) : epc[filing[i].edit] = "writing"
    /\ \A i, j \in 1..Len(filing) : i # j => filing[i].edit # filing[j].edit

PersistInv(s) ==
    /\ sbx[s] = "new" =>
        /\ \A d \in Domains : decision[<<s, d>>] = "none" /\ latest[d] = "none"
        /\ \A e \in Edits : epc[e] = "idle"
    /\ sbx[s] = "loading" => \A d \in todo[s] :
        /\ decision[<<s, d>>] = "none"
        /\ latest[d] = "none"
        /\ \A e \in Edits : epc[e] = "storing" => ekey[e][2] # d
    /\ \A d \in Domains : latest[d] # "none" =>
        /\ decision[<<s, d>>] = latest[d]
        /\ LastView[d] = latest[d] \/ \E e \in Edits : epc[e] = "reading"

\* The strengthening is inductive: one step per action.
LEMMA SpokenStep ==
    ASSUME StoreTypeOK, SpokenInv, [StoreNext]_storeVars
    PROVE  SpokenInv'
  <1> USE DEF tableVars, startVars, editVars, StoreTypeOK, SpokenInv, DecisionsSpoken
  <1>1. ASSUME NEW s \in Sandboxes, StartSandbox(s) PROVE SpokenInv'
    BY <1>1 DEF StartSandbox, Listed
  <1>2. ASSUME NEW s \in Sandboxes, StartFails(s) PROVE SpokenInv'
    BY <1>2 DEF StartFails
  <1>3. ASSUME NEW s \in Sandboxes, NEW d \in Domains, LoadDecision(s, d)
         PROVE  SpokenInv'
    BY <1>3 DEF LoadDecision
  <1>4. ASSUME NEW s \in Sandboxes, LoadFails(s) PROVE SpokenInv'
    <2>1. PICK d \in todo[s] :
             decision' = decision \/ decision' = [decision EXCEPT ![<<s, d>>] = snapshot[s][d]]
      BY <1>4 DEF LoadFails
    <2>2. <<s, d>> \in Keys /\ snapshot[s][d] # "none" /\ <<<<s, d>>, snapshot[s][d]>> \in spoken
      OBVIOUS
    <2>3. UNCHANGED <<committed, spoken, snapshot, todo, epc, ekey, everdict>>
      BY <1>4 DEF LoadFails
    <2> QED
      BY <2>1, <2>2, <2>3
  <1>5. ASSUME NEW s \in Sandboxes, FinishStart(s) PROVE SpokenInv'
    BY <1>5 DEF FinishStart
  <1>6. ASSUME NEW e \in Edits, StoreVerdict(e) PROVE SpokenInv'
    BY <1>6 DEF StoreVerdict
  <1>7. ASSUME NEW e \in Edits, StoreFails(e) PROVE SpokenInv'
    <2>1. /\ decision' = decision \/ decision' = [decision EXCEPT ![ekey[e]] = everdict[e]]
          /\ epc' = [epc EXCEPT ![e] = "failed"]
          /\ UNCHANGED <<committed, spoken, snapshot, todo, ekey, everdict>>
      BY <1>7 DEF StoreFails
    <2>2. <<ekey[e], everdict[e]>> \in spoken /\ everdict[e] # "none" /\ ekey[e] \in Keys
      BY <1>7 DEF StoreFails
    <2>3. CASE decision' = decision
      BY <2>1, <2>3
    <2>4. CASE decision' = [decision EXCEPT ![ekey[e]] = everdict[e]]
      <3>1. \A k \in Keys : decision'[k] = IF k = ekey[e] THEN everdict[e] ELSE decision[k]
        BY <2>2, <2>4 DEF StoreTypeOK
      <3>2. DecisionsSpoken'
        BY <2>1, <2>2, <3>1
      <3>3. ASSUME NEW k \in Keys, committed'[k] # "none"
            PROVE  decision'[k] # "none" /\ <<k, committed'[k]>> \in spoken'
        BY <2>1, <2>2, <3>1, <3>3
      <3>4. \A x \in Edits : epc'[x] = "storing" => epc[x] = "storing"
        BY <2>1
      <3> QED
        BY <2>1, <3>2, <3>3, <3>4
    <2> QED
      BY <2>1, <2>3, <2>4
  <1>8. ASSUME NEW e \in Edits, ReadTable(e) PROVE SpokenInv'
    BY <1>8 DEF ReadTable
  <1>9. ASSUME NEW e \in Edits, ReadFails(e) PROVE SpokenInv'
    BY <1>9 DEF ReadFails
  <1>10. ASSUME WriteFile PROVE SpokenInv'
    BY <1>10 DEF WriteFile
  <1>11. ASSUME WriteFileFails PROVE SpokenInv'
    BY <1>11 DEF WriteFileFails
  <1>12. ASSUME NEW e \in Edits, NEW k \in Keys, NEW v \in Verdicts, Put(e, k, v)
         PROVE  SpokenInv'
    BY <1>12 DEF Put, BeginEdit
  <1>13. ASSUME NEW k \in Keys, NEW v \in Verdicts, Say(k, v) PROVE SpokenInv'
    BY <1>13 DEF Say
  <1>14. ASSUME NEW e \in Edits, NEW k \in Keys, NEW v \in Verdicts, Decide(e, k, v)
         PROVE  SpokenInv'
    <2>1. /\ epc' = [epc EXCEPT ![e] = "storing"] /\ ekey' = [ekey EXCEPT ![e] = k]
          /\ everdict' = [everdict EXCEPT ![e] = v] /\ <<k, v>> \in spoken
          /\ committed' = decision /\ UNCHANGED <<decision, spoken, snapshot, todo>>
      BY <1>14 DEF Decide, BeginEdit
    <2>2. \A x \in Edits : epc'[x] = "storing" => <<ekey'[x], everdict'[x]>> \in spoken
      BY <2>1
    <2> QED
      BY <2>1, <2>2
  <1>15. ASSUME StoreRestart PROVE SpokenInv'
    BY <1>15 DEF StoreRestart, EditRest
  <1>16. ASSUME FaultElsewhere PROVE SpokenInv'
    BY <1>16 DEF FaultElsewhere
  <1>17. ASSUME UNCHANGED storeVars PROVE SpokenInv'
    BY <1>17 DEF storeVars
  <1>18. ASSUME Commit PROVE SpokenInv'
    BY <1>18 DEF Commit
  <1> HIDE DEF StoreTypeOK, SpokenInv
  <1> QED
    BY <1>1, <1>2, <1>3, <1>4, <1>5, <1>6, <1>7, <1>8,
       <1>9, <1>10, <1>11, <1>12, <1>13, <1>14, <1>15, <1>16, <1>17, <1>18
    DEF StoreNext, StartStep, EditStep, PutStep, AnswerStep

\* A decision is in the table only because the user, or the file, said so.
THEOREM StoredAreSpoken == StoreSpec => []DecisionsSpoken
  <1>1. StoreInit => SpokenInv
    BY DEF StoreInit, SpokenInv, DecisionsSpoken
  <1>2. StoreTypeOK /\ SpokenInv /\ [StoreNext]_storeVars => SpokenInv'
    BY SpokenStep
  <1>3. SpokenInv => DecisionsSpoken
    BY DEF SpokenInv
  <1> QED
    BY <1>1, <1>2, <1>3, StoreTyped, PTL DEF StoreSpec

LEMMA LoadedStep ==
    ASSUME StoreTypeOK, LoadedInv, [StoreNext]_storeVars
    PROVE  LoadedInv'
  <1> USE DEF tableVars, startVars, editVars, StoreTypeOK, LoadedInv, Fault
  <1>1. ASSUME NEW s \in Sandboxes, StartSandbox(s) PROVE LoadedInv'
    BY <1>1 DEF StartSandbox, Listed
  <1>2. ASSUME NEW s \in Sandboxes, StartFails(s) PROVE LoadedInv'
    BY <1>2 DEF StartFails
  <1>3. ASSUME NEW s \in Sandboxes, NEW d \in Domains, LoadDecision(s, d)
         PROVE  LoadedInv'
    BY <1>3 DEF LoadDecision
  <1>4. ASSUME NEW s \in Sandboxes, LoadFails(s) PROVE LoadedInv'
    BY <1>4 DEF LoadFails
  <1>5. ASSUME NEW s \in Sandboxes, FinishStart(s) PROVE LoadedInv'
    BY <1>5 DEF FinishStart
  <1>6. ASSUME NEW e \in Edits, StoreVerdict(e) PROVE LoadedInv'
    BY <1>6 DEF StoreVerdict
  <1>7. ASSUME NEW e \in Edits, StoreFails(e) PROVE LoadedInv'
    BY <1>7 DEF StoreFails
  <1>8. ASSUME NEW e \in Edits, ReadTable(e) PROVE LoadedInv'
    BY <1>8 DEF ReadTable
  <1>9. ASSUME NEW e \in Edits, ReadFails(e) PROVE LoadedInv'
    BY <1>9 DEF ReadFails
  <1>10. ASSUME WriteFile PROVE LoadedInv'
    BY <1>10 DEF WriteFile
  <1>11. ASSUME WriteFileFails PROVE LoadedInv'
    BY <1>11 DEF WriteFileFails
  <1>12. ASSUME NEW e \in Edits, NEW k \in Keys, NEW v \in Verdicts, Put(e, k, v)
         PROVE  LoadedInv'
    BY <1>12 DEF Put, BeginEdit
  <1>13. ASSUME NEW k \in Keys, NEW v \in Verdicts, Say(k, v) PROVE LoadedInv'
    BY <1>13 DEF Say
  <1>14. ASSUME NEW e \in Edits, NEW k \in Keys, NEW v \in Verdicts, Decide(e, k, v)
         PROVE  LoadedInv'
    BY <1>14 DEF Decide, BeginEdit
  <1>15. ASSUME StoreRestart PROVE LoadedInv'
    <2>1. faults' # 0
      BY <1>15, FaultBound DEF StoreRestart
    <2> QED
      BY <2>1
  <1>16. ASSUME FaultElsewhere PROVE LoadedInv'
    BY <1>16, FaultBound DEF FaultElsewhere
  <1>17. ASSUME UNCHANGED storeVars PROVE LoadedInv'
    BY <1>17 DEF storeVars
  <1>18. ASSUME Commit PROVE LoadedInv'
    BY <1>18 DEF Commit
  <1> HIDE DEF StoreTypeOK, LoadedInv, Fault
  <1> QED
    BY <1>1, <1>2, <1>3, <1>4, <1>5, <1>6, <1>7, <1>8,
       <1>9, <1>10, <1>11, <1>12, <1>13, <1>14, <1>15, <1>16, <1>17, <1>18
    DEF StoreNext, StartStep, EditStep, PutStep, AnswerStep

\* Without failures, a sandbox that runs finds the verdicts of its file stored.
THEOREM FileLoadedFirst == StoreSpec => []UpMeansLoaded
  <1>1. StoreInit => LoadedInv
    BY DEF StoreInit, LoadedInv, EmptyView
  <1>2. StoreTypeOK /\ LoadedInv /\ [StoreNext]_storeVars => LoadedInv'
    BY LoadedStep
  <1>3. LoadedInv => UpMeansLoaded
    BY DEF LoadedInv, UpMeansLoaded
  <1> QED
    BY <1>1, <1>2, <1>3, StoreTyped, PTL DEF StoreSpec

-----------------------------------------------------------------------------
(* The file, with one sandbox per directory.                               *)

\* The queue of snapshots, index by index, after a snapshot joins or leaves it.
LEMMA QueueGrows ==
    ASSUME StoreTypeOK, NEW e \in Edits, NEW q,
           q = Append(filing, [edit |-> e, view |-> Table(ekey[e][1])])
    PROVE  /\ Len(filing) \in Nat /\ Len(q) = Len(filing) + 1 /\ q # <<>>
           /\ \A i \in 1..Len(filing) : q[i] = filing[i]
           /\ q[Len(q)].edit = e
           /\ q[Len(q)].view = Table(ekey[e][1])
  <1> DEFINE entry == [edit |-> e, view |-> Table(ekey[e][1])]
  <1>1. entry \in Filing /\ entry.edit = e /\ entry.view = Table(ekey[e][1])
    <2>1. Table(ekey[e][1]) \in View
      BY DEF Table, StoreTypeOK
    <2> QED
      BY <2>1 DEF Filing
  <1>2. filing \in Seq(Filing)
    BY DEF StoreTypeOK
  <1> HIDE DEF entry
  <1>3. q = Append(filing, entry)
    BY DEF entry
  <1> QED
    BY <1>1, <1>2, <1>3, AppendProperties, LenProperties

LEMMA QueueShrinks ==
    ASSUME StoreTypeOK, filing # <<>>
    PROVE  /\ Len(filing) \in Nat \ {0} /\ Len(Tail(filing)) = Len(filing) - 1
           /\ \A i \in 1..Len(Tail(filing)) : Tail(filing)[i] = filing[i + 1]
           /\ Head(filing) = filing[1]
  <1>1. filing \in Seq(Filing)
    BY DEF StoreTypeOK
  <1> QED
    BY <1>1, HeadTailProperties, EmptySeq

\* Taking the head away does not change which snapshot is the last.
LEMMA LastStaysLast ==
    ASSUME StoreTypeOK, filing # <<>>, NEW rest, rest = Tail(filing)
    PROVE  IF rest = <<>> THEN filing[Len(filing)] = Head(filing)
                          ELSE rest[Len(rest)] = filing[Len(filing)]
  <1>1. rest \in Seq(Filing)
    BY HeadType
  <1>2. /\ Len(filing) \in Nat \ {0} /\ Len(rest) = Len(filing) - 1
        /\ \A i \in 1..Len(rest) : rest[i] = filing[i + 1]
        /\ Head(filing) = filing[1]
    BY QueueShrinks
  <1>3. CASE rest = <<>>
    <2>1. Len(rest) = 0
      <3>1. Len(<<>>) = 0
        BY EmptySeq
      <3> QED
        BY <1>3, <3>1, Zenon
    <2>2. Len(filing) = 1
      <3>1. Len(filing) \in Nat /\ 0 = Len(filing) - 1
        BY <1>2, <2>1, Zenon
      <3> QED
        BY <3>1
    <2> QED
      BY <1>2, <1>3, <2>2
  <1>4. CASE rest # <<>>
    <2>1. Len(rest) \in Nat \ {0}
      BY <1>1, <1>4, EmptySeq
    <2>2. Len(rest) \in 1..Len(rest) /\ Len(rest) + 1 = Len(filing)
      BY <1>2, <2>1
    <2> QED
      BY <1>2, <1>4, <2>2
  <1> QED
    BY <1>3, <1>4

LEMMA QueueEdits ==
    ASSUME StoreTypeOK
    PROVE  /\ Len(filing) \in Nat
           /\ \A i \in 1..Len(filing) : filing[i].edit \in Edits
  <1>1. filing \in Seq(Filing)
    BY DEF StoreTypeOK
  <1>2. \A i \in 1..Len(filing) : filing[i] \in Filing
    BY <1>1, ElementOfSeq
  <1> QED
    BY <1>1, <1>2, LenProperties DEF Filing

\* Edits whose snapshot is queued are exactly waiting for its turn.
LEMMA FilingStep ==
    ASSUME StoreTypeOK, FilingInv, [StoreNext]_storeVars
    PROVE  FilingInv'
  <1> USE DEF tableVars, startVars, editVars, StoreTypeOK, FilingInv, EditRest
  <1>f. /\ Len(filing) \in Nat
        /\ \A i \in 1..Len(filing) : filing[i].edit \in Edits
    BY QueueEdits
  <1>1. ASSUME NEW s \in Sandboxes, StartSandbox(s) PROVE FilingInv'
    BY <1>1, <1>f DEF StartSandbox
  <1>2. ASSUME NEW s \in Sandboxes, StartFails(s) PROVE FilingInv'
    BY <1>2, <1>f DEF StartFails
  <1>3. ASSUME NEW s \in Sandboxes, NEW d \in Domains, LoadDecision(s, d)
         PROVE  FilingInv'
    BY <1>3, <1>f DEF LoadDecision
  <1>4. ASSUME NEW s \in Sandboxes, LoadFails(s) PROVE FilingInv'
    BY <1>4, <1>f DEF LoadFails
  <1>5. ASSUME NEW s \in Sandboxes, FinishStart(s) PROVE FilingInv'
    BY <1>5, <1>f DEF FinishStart
  <1>6. ASSUME NEW e \in Edits, StoreVerdict(e) PROVE FilingInv'
    BY <1>6, <1>f DEF StoreVerdict
  <1>7. ASSUME NEW e \in Edits, StoreFails(e) PROVE FilingInv'
    BY <1>7, <1>f DEF StoreFails
  <1>8. ASSUME NEW e \in Edits, ReadTable(e) PROVE FilingInv'
    <2>1. /\ Len(filing') = Len(filing) + 1
          /\ \A i \in 1..Len(filing) : filing'[i] = filing[i]
          /\ filing'[Len(filing')].edit = e
      BY <1>8, QueueGrows DEF ReadTable
    <2>2. \A i \in 1..Len(filing) : filing[i].edit # e
      BY <1>8 DEF ReadTable
    <2>3. epc' = [epc EXCEPT ![e] = "writing"]
      BY <1>8 DEF ReadTable
    <2>4. epc \in [Edits -> EditPhase]
      OBVIOUS
    <2>5. \A i \in 1..Len(filing) : epc[filing[i].edit] = "writing"
      OBVIOUS
    <2>6. \A i, j \in 1..Len(filing) : i # j => filing[i].edit # filing[j].edit
      OBVIOUS
    <2>7. \A i \in 1..Len(filing') : i \in 1..Len(filing) \/ i = Len(filing')
      BY <2>1, <1>f
    <2> HIDE DEF StoreTypeOK, FilingInv
    <2>8. \A i \in 1..Len(filing') : epc'[filing'[i].edit] = "writing"
      BY <2>1, <2>3, <2>4, <2>5, <2>7, <1>f
    <2>9. \A i, j \in 1..Len(filing') : i # j => filing'[i].edit # filing'[j].edit
      BY <2>1, <2>2, <2>6, <2>7
    <2> QED
      BY <2>8, <2>9 DEF FilingInv
  <1>9. ASSUME NEW e \in Edits, ReadFails(e) PROVE FilingInv'
    BY <1>9, <1>f DEF ReadFails
  <1>10. ASSUME WriteFile PROVE FilingInv'
    <2>1. filing # <<>> /\ filing' = Tail(filing)
      BY <1>10 DEF WriteFile
    <2>2. /\ Len(filing) \in Nat \ {0} /\ Len(filing') = Len(filing) - 1
          /\ \A i \in 1..Len(filing') : filing'[i] = filing[i + 1]
      BY <2>1, QueueShrinks
    <2>3. epc' = [epc EXCEPT ![filing[1].edit] = "stored"]
      BY <1>10, QueueShrinks DEF WriteFile
    <2>4. \A i \in 1..Len(filing') : i + 1 \in 1..Len(filing) /\ i + 1 # 1
      BY <2>2
    <2>5. 1 \in 1..Len(filing)
      BY <2>2
    <2>a. epc \in [Edits -> EditPhase]
      OBVIOUS
    <2>b. \A i \in 1..Len(filing) : epc[filing[i].edit] = "writing"
      OBVIOUS
    <2>c. \A i, j \in 1..Len(filing) : i # j => filing[i].edit # filing[j].edit
      OBVIOUS
    <2> HIDE DEF StoreTypeOK, FilingInv
    <2>6. \A i \in 1..Len(filing') : epc'[filing'[i].edit] = "writing"
      BY <2>2, <2>3, <2>4, <2>5, <2>a, <2>b, <2>c, <1>f
    <2>7. \A i, j \in 1..Len(filing') :
              i # j => i + 1 # j + 1
      BY <2>2
    <2>8. \A i, j \in 1..Len(filing') : i # j => filing'[i].edit # filing'[j].edit
      BY <2>2, <2>4, <2>7, <2>c
    <2> QED
      BY <2>6, <2>8 DEF FilingInv
  <1>11. ASSUME WriteFileFails PROVE FilingInv'
    <2>1. filing # <<>> /\ filing' = Tail(filing)
      BY <1>11 DEF WriteFileFails
    <2>2. /\ Len(filing) \in Nat \ {0} /\ Len(filing') = Len(filing) - 1
          /\ \A i \in 1..Len(filing') : filing'[i] = filing[i + 1]
      BY <2>1, QueueShrinks
    <2>3. epc' = [epc EXCEPT ![filing[1].edit] = "stored"]
      BY <1>11, QueueShrinks DEF WriteFileFails
    <2>4. \A i \in 1..Len(filing') : i + 1 \in 1..Len(filing) /\ i + 1 # 1
      BY <2>2
    <2>5. 1 \in 1..Len(filing)
      BY <2>2
    <2>a. epc \in [Edits -> EditPhase]
      OBVIOUS
    <2>b. \A i \in 1..Len(filing) : epc[filing[i].edit] = "writing"
      OBVIOUS
    <2>c. \A i, j \in 1..Len(filing) : i # j => filing[i].edit # filing[j].edit
      OBVIOUS
    <2> HIDE DEF StoreTypeOK, FilingInv
    <2>6. \A i \in 1..Len(filing') : epc'[filing'[i].edit] = "writing"
      BY <2>2, <2>3, <2>4, <2>5, <2>a, <2>b, <2>c, <1>f
    <2>7. \A i, j \in 1..Len(filing') :
              i # j => i + 1 # j + 1
      BY <2>2
    <2>8. \A i, j \in 1..Len(filing') : i # j => filing'[i].edit # filing'[j].edit
      BY <2>2, <2>4, <2>7, <2>c
    <2> QED
      BY <2>6, <2>8 DEF FilingInv
  <1>12. ASSUME NEW e \in Edits, NEW k \in Keys, NEW v \in Verdicts, Put(e, k, v)
         PROVE  FilingInv'
    BY <1>12, <1>f DEF Put, BeginEdit
  <1>13. ASSUME NEW k \in Keys, NEW v \in Verdicts, Say(k, v) PROVE FilingInv'
    BY <1>13, <1>f DEF Say
  <1>14. ASSUME NEW e \in Edits, NEW k \in Keys, NEW v \in Verdicts, Decide(e, k, v)
         PROVE  FilingInv'
    BY <1>14, <1>f DEF Decide, BeginEdit
  <1>15. ASSUME StoreRestart PROVE FilingInv'
    BY <1>15, <1>f DEF StoreRestart
  <1>16. ASSUME FaultElsewhere PROVE FilingInv'
    BY <1>16, <1>f DEF FaultElsewhere
  <1>17. ASSUME UNCHANGED storeVars PROVE FilingInv'
    BY <1>17, <1>f DEF storeVars
  <1>18. ASSUME Commit PROVE FilingInv'
    BY <1>18, <1>f DEF Commit
  <1> HIDE DEF StoreTypeOK, FilingInv
  <1> QED
    BY <1>1, <1>2, <1>3, <1>4, <1>5, <1>6, <1>7, <1>8,
       <1>9, <1>10, <1>11, <1>12, <1>13, <1>14, <1>15, <1>16, <1>17, <1>18
    DEF StoreNext, StartStep, EditStep, PutStep, AnswerStep

LEMMA PersistStep ==
    ASSUME NEW s0 \in Sandboxes, Sandboxes = {s0},
           StoreTypeOK, FilingInv, faults = 0 => PersistInv(s0), [StoreNext]_storeVars
    PROVE  faults' = 0 => PersistInv(s0)'
  <1> USE DEF tableVars, startVars, editVars, StoreTypeOK, PersistInv
  <1>1. ASSUME NEW s \in Sandboxes, StartSandbox(s)
         PROVE  (faults' = 0 => PersistInv(s0)')
    <2>1. s = s0 /\ UNCHANGED <<decision, latest, epc, ekey, filing, permFile, faults>>
      BY <1>1 DEF StartSandbox
    <2>2. sbx[s0] = "new" /\ sbx'[s0] = "loading" /\ todo'[s0] \subseteq Domains
      BY <1>1, <2>1 DEF StartSandbox, Listed
    <2> QED
      BY <2>1, <2>2 DEF LastView
  <1>2. ASSUME NEW s \in Sandboxes, StartFails(s)
         PROVE  (faults' = 0 => PersistInv(s0)')
    BY <1>2, FaultBound DEF StartFails, Fault
  <1>3. ASSUME NEW s \in Sandboxes, NEW d \in Domains, LoadDecision(s, d)
         PROVE  (faults' = 0 => PersistInv(s0)')
    BY <1>3 DEF LoadDecision, LastView
  <1>4. ASSUME NEW s \in Sandboxes, LoadFails(s)
         PROVE  (faults' = 0 => PersistInv(s0)')
    BY <1>4, FaultBound DEF LoadFails, Fault
  <1>5. ASSUME NEW s \in Sandboxes, FinishStart(s)
         PROVE  (faults' = 0 => PersistInv(s0)')
    BY <1>5 DEF FinishStart, LastView
  <1>6. ASSUME NEW e \in Edits, StoreVerdict(e) PROVE (faults' = 0 => PersistInv(s0)')
    BY <1>6 DEF StoreVerdict, LastView
  <1>7. ASSUME NEW e \in Edits, StoreFails(e) PROVE (faults' = 0 => PersistInv(s0)')
    BY <1>7, FaultBound DEF StoreFails, Fault
  <1>8. ASSUME NEW e \in Edits, ReadTable(e) PROVE (faults' = 0 => PersistInv(s0)')
    <2> SUFFICES ASSUME faults' = 0 PROVE PersistInv(s0)'
      OBVIOUS
    <2>1. faults = 0 /\ UNCHANGED <<decision, latest, sbx, todo, ekey>>
      BY <1>8 DEF ReadTable
    <2>2. ekey[e][1] = s0
      OBVIOUS
    <2>3. LastView' = Table(s0)
      <3>1. filing' = Append(filing, [edit |-> e, view |-> Table(ekey[e][1])])
        BY <1>8 DEF ReadTable
      <3>2. filing' # <<>> /\ filing'[Len(filing')].view = Table(s0)
        BY <3>1, <2>2, QueueGrows
      <3> QED
        BY <3>2 DEF LastView
    <2>4. epc[e] = "reading" /\ epc' = [epc EXCEPT ![e] = "writing"]
      BY <1>8 DEF ReadTable
    <2> QED
      BY <2>1, <2>3, <2>4 DEF Table
  <1>9. ASSUME NEW e \in Edits, ReadFails(e) PROVE (faults' = 0 => PersistInv(s0)')
    BY <1>9, FaultBound DEF ReadFails, Fault
  <1>10. ASSUME WriteFile PROVE (faults' = 0 => PersistInv(s0)')
    <2> SUFFICES ASSUME faults' = 0 PROVE PersistInv(s0)'
      OBVIOUS
    <2>1. faults = 0 /\ UNCHANGED <<decision, latest, sbx, todo, ekey>>
      BY <1>10 DEF WriteFile
    <2>2. LastView' = LastView
      <3>1. filing # <<>> /\ filing' = Tail(filing) /\ permFile' = Head(filing).view
        BY <1>10 DEF WriteFile
      <3> QED
        BY <3>1, LastStaysLast DEF LastView
    <2>3. /\ Head(filing).edit \in Edits
          /\ epc[Head(filing).edit] = "writing"
          /\ epc' = [epc EXCEPT ![Head(filing).edit] = "stored"]
      BY <1>10, HeadType, QueueShrinks DEF WriteFile, FilingInv
    <2> QED
      BY <2>1, <2>2, <2>3
  <1>11. ASSUME WriteFileFails PROVE (faults' = 0 => PersistInv(s0)')
    BY <1>11, FaultBound DEF WriteFileFails, Fault
  <1>12. ASSUME NEW e \in Edits, NEW k \in Keys, NEW v \in Verdicts, Put(e, k, v)
         PROVE  (faults' = 0 => PersistInv(s0)')
    BY <1>12 DEF Put, BeginEdit, LastView
  <1>13. ASSUME NEW k \in Keys, NEW v \in Verdicts, Say(k, v)
         PROVE  (faults' = 0 => PersistInv(s0)')
    BY <1>13 DEF Say, LastView
  <1>14. ASSUME NEW e \in Edits, NEW k \in Keys, NEW v \in Verdicts, Decide(e, k, v)
         PROVE  (faults' = 0 => PersistInv(s0)')
    BY <1>14 DEF Decide, BeginEdit, LastView
  <1>15. ASSUME StoreRestart PROVE (faults' = 0 => PersistInv(s0)')
    BY <1>15, FaultBound DEF StoreRestart, Fault
  <1>16. ASSUME FaultElsewhere PROVE (faults' = 0 => PersistInv(s0)')
    BY <1>16, FaultBound DEF FaultElsewhere, Fault
  <1>17. ASSUME UNCHANGED storeVars PROVE (faults' = 0 => PersistInv(s0)')
    BY <1>17 DEF storeVars, LastView
  <1>18. ASSUME Commit PROVE (faults' = 0 => PersistInv(s0)')
    BY <1>18 DEF Commit, LastView
  <1> HIDE DEF StoreTypeOK, PersistInv
  <1> QED
    BY <1>1, <1>2, <1>3, <1>4, <1>5, <1>6, <1>7, <1>8,
       <1>9, <1>10, <1>11, <1>12, <1>13, <1>14, <1>15, <1>16, <1>17, <1>18
    DEF StoreNext, StartStep, EditStep, PutStep, AnswerStep

\* With one sandbox in the directory and without failures, whenever no edit is
\* under way the permissions file holds the last verdict stored for each domain.
THEOREM FileKeepsLast ==
    ASSUME NEW s0 \in Sandboxes, Sandboxes = {s0}
    PROVE  StoreSpec => []AlwaysPersists
  <1> DEFINE Inv == FilingInv /\ (faults = 0 => PersistInv(s0))
  <1>1. StoreInit => Inv
    BY DEF StoreInit, FilingInv, PersistInv, EmptyView
  <1>2. StoreTypeOK /\ Inv /\ [StoreNext]_storeVars => Inv'
    BY FilingStep, PersistStep
  <1>3. StoreTypeOK /\ Inv => AlwaysPersists
    <2> SUFFICES ASSUME StoreTypeOK, Inv, faults = 0, EditsQuiet PROVE
            \A d \in Domains : latest[d] # "none" => permFile[d] = latest[d]
      BY DEF AlwaysPersists
    <2>1. filing = <<>>
      <3> SUFFICES ASSUME filing # <<>> PROVE FALSE
        OBVIOUS
      <3>1. Head(filing).edit \in Edits /\ epc[Head(filing).edit] = "writing"
        BY HeadType, QueueShrinks DEF FilingInv
      <3> QED
        BY <3>1 DEF EditsQuiet, EditRest
    <2> QED
      BY <2>1 DEF PersistInv, LastView, EditsQuiet, EditRest
  <1> QED
    BY <1>1, <1>2, <1>3, StoreTyped, PTL DEF StoreSpec

-----------------------------------------------------------------------------
(* What a finished edit leaves behind: a committed decision for its key, for  *)
(* good.                                                                      *)

FilingKept ==
    /\ FilingInv
    /\ \A e \in Edits : epc[e] \in {"reading", "writing", "stored"} =>
            committed[ekey[e]] # "none"

\* A committed decision is replaced, never withdrawn.
LEMMA DecisionsStay ==
    ASSUME StoreTypeOK, SpokenInv, [StoreNext]_storeVars, NEW k \in Keys,
           committed[k] # "none"
    PROVE  committed'[k] # "none"
  <1> USE DEF tableVars, startVars, editVars, StoreTypeOK
  <1>1. decision[k] # "none"
    BY DEF SpokenInv
  <1>2. CASE StartStep
    <2>1. ASSUME NEW s \in Sandboxes, NEW d \in Domains, LoadDecision(s, d)
          PROVE  committed'[k] # "none"
      <3>1. snapshot[s][d] # "none"
        BY <2>1 DEF LoadDecision, SpokenInv
      <3>2. committed' = [decision EXCEPT ![<<s, d>>] = snapshot[s][d]]
        BY <2>1 DEF LoadDecision
      <3>3. decision \in [Keys -> Entry]
        OBVIOUS
      <3> HIDE DEF StoreTypeOK
      <3> QED
        BY <1>1, <3>1, <3>2, <3>3
    <2>2. CASE UNCHANGED committed \/ committed' = decision
      BY <1>1, <2>2
    <2>3. \/ \E s \in Sandboxes, d \in Domains : LoadDecision(s, d)
          \/ UNCHANGED committed \/ committed' = decision
      <3>1. ASSUME NEW s \in Sandboxes, StartSandbox(s) \/ StartFails(s)
            PROVE  UNCHANGED committed \/ committed' = decision
        BY <3>1 DEF StartSandbox, StartFails
      <3>2. ASSUME NEW s \in Sandboxes, LoadFails(s) \/ FinishStart(s)
            PROVE  UNCHANGED committed \/ committed' = decision
        BY <3>2 DEF LoadFails, FinishStart
      <3> QED
        BY <1>2, <3>1, <3>2 DEF StartStep
    <2> QED
      BY <2>1, <2>2, <2>3
  <1>3. CASE EditStep
    <2>1. ASSUME NEW e \in Edits, StoreVerdict(e) PROVE committed'[k] # "none"
      <3>1. everdict[e] # "none" /\ committed' = [decision EXCEPT ![ekey[e]] = everdict[e]]
        BY <2>1 DEF StoreVerdict
      <3> QED
        BY <1>1, <3>1
    <2>2. ASSUME NEW e \in Edits, StoreFails(e) \/ ReadTable(e) \/ ReadFails(e)
          PROVE  committed' = committed
      BY <2>2 DEF StoreFails, ReadTable, ReadFails
    <2>3. CASE WriteFile \/ WriteFileFails
      BY <2>3 DEF WriteFile, WriteFileFails
    <2> QED
      BY <1>3, <2>1, <2>2, <2>3 DEF EditStep
  <1>4. CASE PutStep \/ AnswerStep
    BY <1>1, <1>4 DEF PutStep, AnswerStep, Put, Say, Decide
  <1>5. CASE Commit \/ StoreRestart \/ FaultElsewhere \/ UNCHANGED storeVars
    BY <1>1, <1>5 DEF Commit, StoreRestart, FaultElsewhere, storeVars
  <1> HIDE DEF StoreTypeOK
  <1> QED
    BY <1>2, <1>3, <1>4, <1>5 DEF StoreNext

LEMMA FilingKeptStep ==
    ASSUME StoreTypeOK, SpokenInv, FilingKept, [StoreNext]_storeVars
    PROVE  FilingKept'
  <1> USE DEF tableVars, startVars, editVars
  <1>1. FilingInv'
    BY FilingStep DEF FilingKept
  <1> SUFFICES ASSUME NEW e \in Edits, epc'[e] \in {"reading", "writing", "stored"}
               PROVE  committed'[ekey'[e]] # "none"
    BY <1>1 DEF FilingKept
  <1>2. \A x \in Edits : epc[x] \in {"reading", "writing", "stored"} =>
            committed'[ekey[x]] # "none"
    BY DecisionsStay DEF FilingKept, StoreTypeOK
  <1>3. CASE StartStep
    BY <1>2, <1>3 DEF StartStep, StartSandbox, StartFails, LoadDecision, LoadFails,
       FinishStart
  <1>4. ASSUME NEW x \in Edits, StoreVerdict(x) PROVE committed'[ekey'[e]] # "none"
    BY <1>2, <1>4 DEF StoreVerdict, StoreTypeOK
  <1>5. ASSUME NEW x \in Edits, StoreFails(x) \/ ReadTable(x) \/ ReadFails(x)
        PROVE  committed'[ekey'[e]] # "none"
    BY <1>2, <1>5 DEF StoreFails, ReadTable, ReadFails, StoreTypeOK
  <1>6. CASE WriteFile \/ WriteFileFails
    <2>1. filing # <<>>
      BY <1>6 DEF WriteFile, WriteFileFails
    <2>2. epc[Head(filing).edit] = "writing"
      BY <2>1, QueueShrinks DEF FilingKept, FilingInv
    <2>3. ekey' = ekey /\ epc' = [epc EXCEPT ![Head(filing).edit] = "stored"]
      BY <1>6 DEF WriteFile, WriteFileFails
    <2>4. epc[e] \in {"reading", "writing", "stored"}
      BY <2>2, <2>3 DEF StoreTypeOK
    <2> QED
      BY <1>2, <2>3, <2>4
  <1>7. CASE PutStep \/ AnswerStep
    <2>1. ASSUME NEW x \in Edits, NEW k \in Keys, NEW v \in Verdicts, BeginEdit(x, k, v)
          PROVE  committed'[ekey'[e]] # "none"
      BY <1>2, <2>1 DEF BeginEdit, StoreTypeOK
    <2>2. ASSUME NEW k \in Keys, NEW v \in Verdicts, Say(k, v)
          PROVE  committed'[ekey'[e]] # "none"
      BY <1>2, <2>2 DEF Say
    <2> QED
      BY <1>7, <2>1, <2>2 DEF PutStep, AnswerStep, Put, Decide
  <1>8. CASE Commit \/ StoreRestart \/ FaultElsewhere \/ UNCHANGED storeVars
    BY <1>2, <1>8 DEF Commit, StoreRestart, FaultElsewhere, storeVars, EditRest
  <1> QED
    BY <1>3, <1>4, <1>5, <1>6, <1>7, <1>8 DEF StoreNext, EditStep

LEMMA StoreInvKept == StoreSpec => [](SpokenInv /\ FilingKept)
  <1>1. StoreInit => SpokenInv /\ FilingKept
    BY DEF StoreInit, SpokenInv, DecisionsSpoken, FilingInv, FilingKept
  <1>2. StoreTypeOK /\ SpokenInv /\ FilingKept /\ [StoreNext]_storeVars
            => SpokenInv' /\ FilingKept'
    BY SpokenStep, FilingKeptStep
  <1> QED
    BY <1>1, <1>2, StoreTyped, PTL DEF StoreSpec

=============================================================================
