------------------------------ MODULE MCFeed ------------------------------
(* Bounded instances for TLC of the three modules about the terminal.  They *)
(* share no state, so one run checks them side by side: a part moves only   *)
(* while the others rest.                                                   *)
EXTENDS TerminalFeed, TerminalSize, TerminalInput

MCInit == Init /\ SizeInit /\ InputInit

FeedRests == Init /\ shows = CHOOSE f \in [Tabs -> Sandboxes] : TRUE
InputRests == InputInit /\ ~browserMaster

FeedPart == SizeInit /\ InputRests /\ Next /\ UNCHANGED <<sizeVars, inputVars>>
SizePart == FeedRests /\ InputRests /\ SizeNext /\ UNCHANGED <<vars, inputVars>>
InputPart == FeedRests /\ SizeInit /\ InputNext /\ UNCHANGED <<vars, sizeVars>>

MCNext == FeedPart \/ SizePart \/ InputPart

MCSpec == MCInit /\ [][MCNext]_<<vars, sizeVars, inputVars>>
             /\ \A t \in Tabs : WF_vars(Handler(t))
=============================================================================
