------------------------------ MODULE MCStore ------------------------------
(* Bounded instances for TLC of DecisionStore and Settings, the two kinds of *)
(* file in a working directory.  They share no state, so one run checks them *)
(* side by side: a part moves only while the other rests.                    *)
EXTENDS DecisionStore, Settings, TLC

\* Edits are interchangeable, and so are panes: no definition tells one from another.
StoreSymmetry == Permutations(Edits) \cup Permutations(Panes)

StorePart == SettingsInit /\ file = Unreadable /\ StoreNext /\ UNCHANGED settingVars
SettingsPart == StoreInit /\ permFile = EmptyView /\ SettingsNext /\ UNCHANGED storeVars

MCInit == StoreInit /\ SettingsInit

MCSpec == MCInit /\ [][StorePart \/ SettingsPart]_<<storeVars, settingVars>>
=============================================================================
