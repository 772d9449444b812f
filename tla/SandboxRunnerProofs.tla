------------------------ MODULE SandboxRunnerProofs ------------------------
(***************************************************************************)
(* Theorems about SandboxRunner, for any number of pieces of output and of *)
(* interrupts.                                                             *)
(***************************************************************************)
EXTENDS SandboxRunner, TLAPS

-----------------------------------------------------------------------------
(* Types, in six parts: the provers take flags and numbers apart.  What   *)
(* is being stored has been read.                                          *)

Flags ==
    /\ xdgWanted \in BOOLEAN /\ hurried \in BOOLEAN /\ current \in BOOLEAN
    /\ raw \in BOOLEAN /\ stdinVar \in BOOLEAN
    /\ forwarding \in BOOLEAN /\ marked \in BOOLEAN

Counts ==
    /\ interrupts \in 0..MaxInterrupts
    /\ printed \in 0..MaxChunks
    /\ logged \in 0..queued /\ queued \in 0..printed
    /\ pc = "logging" => logged < queued

Places ==
    /\ pc \in Awaiting \cup Cleanup \cup {"idle", "over"}
    /\ cutAt \in Awaiting \cup {"none", "idle"}

HelperTypes == helper \in [Helpers -> {"none", "running", "dead"}] /\ held \subseteq Helpers

Sets ==
    /\ missed \subseteq {"row", "server"}
    /\ files \subseteq {"tmpdir", "socket"}
    /\ harmed \subseteq {"stdin", "master"}

Values ==
    /\ mode \in {"tty", "pipe", "forward"}
    /\ row \in {"none", "open", "ended"}
    /\ child \in {"none", "running", "exited"}
    /\ stdinW \in Number /\ master \in Number
    /\ reader \in {"none", "reading", "ended"}

TypeInv == Flags /\ Counts /\ Places /\ HelperTypes /\ Sets /\ Values

LEMMA TypeParts == TypeInv => RunnerTypeOK
  BY DEF TypeInv, RunnerTypeOK, Flags, Counts, Places, HelperTypes, Sets, Values

LEMMA InitType == Init => TypeInv
  <1> SUFFICES ASSUME Init PROVE Flags /\ Counts /\ Places /\ HelperTypes /\ Sets /\ Values
    BY DEF TypeInv
  <1>1. Flags
    BY DEF Init, Flags
  <1>2. Counts
    BY RunnerBounds DEF Init, Counts
  <1>3. pc = "idle" /\ cutAt = "none"
    BY DEF Init
  <1>4. HelperTypes
    BY DEF Init, HelperTypes
  <1>5. Values
    BY DEF Init, Values, Number
  <1>6. Sets
    BY DEF Init, Sets
  <1> QED
    BY <1>1, <1>2, <1>3, <1>4, <1>5, <1>6 DEF Places

\* The flags stay flags.
LEMMA StepFlags == Flags /\ [Next]_vars => Flags'
  <1> USE DEF Flags, setting, signal, run, fds, output, thread
  <1>1. ASSUME Flags, Start PROVE Flags'
    BY <1>1 DEF Start, Announce, AnnounceFails, Announced, CertsStart, CertsMade, XdgStart,
                XdgReady, XdgNever, MitmStart, MitmReady, BuildFails, Prepared, SpawnChild,
                InfoRead, InfoNever, GatewayStart, StartReader
  <1>2. ASSUME Flags, Stream PROVE Flags'
    BY <1>2 DEF Stream, LogOpen, Take, Store, StreamEnds, LogClosed, ChildAwaited
  <1>3. ASSUME Flags, Finally PROVE Flags'
    BY <1>3 DEF Finally, CloseStdin, ClosePty, KillHelpers, RemoveTmp, EndRow, EndRowFails,
                TellServer, ServerNotTold, Ended
  <1>4. ASSUME Flags, Fails PROVE Flags'
    BY <1>4 DEF Fails, Cut
  <1>5. ASSUME Flags, Reader PROVE Flags'
    BY <1>5 DEF Reader, ReadPiece, SeeEnd, SeeClosed, UseOthers, StdinEnds, StdinRefused
  <1>6. ASSUME Flags, World PROVE Flags'
    BY <1>6 DEF World, Interrupt, InterruptCleanup, Cut, CommandPrints, ChildExits,
                OthersOpen, HelperDies
  <1>7. ASSUME Flags, UNCHANGED vars PROVE Flags'
    BY <1>7 DEF vars
  <1> QED
    BY <1>1, <1>2, <1>3, <1>4, <1>5, <1>6, <1>7 DEF Next

\* A piece is printed, read and stored in this order.
LEMMA StepCounts == Counts /\ [Next]_vars => Counts'
  <1> USE RunnerBounds DEF Counts, Goto, setting, signal, run, fds, output, thread
  <1>1. ASSUME Counts, Start PROVE Counts'
    <2>1. ASSUME Announce \/ AnnounceFails \/ Announced \/ CertsStart \/ CertsMade
          PROVE  Counts'
      BY <1>1, <2>1 DEF Announce, AnnounceFails, Announced, CertsStart, CertsMade
    <2>2. ASSUME XdgStart \/ XdgReady \/ XdgNever \/ MitmStart \/ MitmReady \/ BuildFails
          PROVE  Counts'
      BY <1>1, <2>2 DEF XdgStart, XdgReady, XdgNever, MitmStart, MitmReady, BuildFails
    <2>3. ASSUME Prepared \/ SpawnChild \/ InfoRead \/ InfoNever \/ GatewayStart
          PROVE  Counts'
      BY <1>1, <2>3 DEF Prepared, SpawnChild, InfoRead, InfoNever, GatewayStart, StartReader
    <2> QED
      BY <1>1, <2>1, <2>2, <2>3 DEF Start
  <1>2. ASSUME Counts, Stream PROVE Counts'
    <2>1. ASSUME LogOpen \/ Take \/ StreamEnds \/ LogClosed \/ ChildAwaited
          PROVE  Counts'
      BY <1>2, <2>1 DEF LogOpen, Take, StreamEnds, LogClosed, ChildAwaited
    <2>2. ASSUME Store
          PROVE  Counts'
      BY <1>2, <2>2 DEF Store
    <2> QED
      BY <1>2, <2>1, <2>2 DEF Stream
  <1>3. ASSUME Counts, Finally PROVE Counts'
    BY <1>3 DEF Finally, CloseStdin, ClosePty, KillHelpers, RemoveTmp, EndRow, EndRowFails,
                TellServer, ServerNotTold, Ended
  <1>4. ASSUME Counts, Fails PROVE Counts'
    BY <1>4 DEF Fails, Cut
  <1>5. ASSUME Counts, Reader PROVE Counts'
    BY <1>5 DEF Reader, ReadPiece, SeeEnd, SeeClosed, UseOthers, StdinEnds, StdinRefused
  <1>6. ASSUME Counts, World PROVE Counts'
    BY <1>6 DEF World, Interrupt, InterruptCleanup, Cut, CommandPrints, ChildExits,
                OthersOpen, HelperDies
  <1>7. ASSUME Counts, UNCHANGED vars PROVE Counts'
    BY <1>7 DEF vars
  <1> QED
    BY <1>1, <1>2, <1>3, <1>4, <1>5, <1>6, <1>7 DEF Next

\* The steps lead from place to place.
LEMMA StepPlaces == Places /\ [Next]_vars => Places'
  <1> USE DEF Places, Awaiting, BeforeTry, Startup, Streaming, Cleanup, Goto, run, fds, output,
              thread
  <1>1. ASSUME Places, Start PROVE Places'
    BY <1>1 DEF Start, Announce, AnnounceFails, Announced, CertsStart, CertsMade, XdgStart,
                XdgReady, XdgNever, MitmStart, MitmReady, BuildFails, Prepared, SpawnChild,
                InfoRead, InfoNever, GatewayStart, StartReader
  <1>2. ASSUME Places, Stream PROVE Places'
    BY <1>2 DEF Stream, LogOpen, Take, Store, StreamEnds, LogClosed, ChildAwaited
  <1>3. ASSUME Places, Finally PROVE Places'
    BY <1>3 DEF Finally, CloseStdin, ClosePty, KillHelpers, RemoveTmp, EndRow, EndRowFails,
                TellServer, ServerNotTold, Ended
  <1>4. ASSUME Places, Fails PROVE Places'
    BY <1>4 DEF Fails, Cut
  <1>5. ASSUME Places, Reader PROVE Places'
    BY <1>5 DEF Reader, ReadPiece, SeeEnd, SeeClosed, UseOthers, StdinEnds, StdinRefused
  <1>6. ASSUME Places, World PROVE Places'
    BY <1>6 DEF World, Interrupt, InterruptCleanup, Cut, CommandPrints, ChildExits,
                OthersOpen, HelperDies
  <1>7. ASSUME Places, UNCHANGED vars PROVE Places'
    BY <1>7 DEF vars
  <1> QED
    BY <1>1, <1>2, <1>3, <1>4, <1>5, <1>6, <1>7 DEF Next

\* The other variables.
LEMMA StepValues == Values /\ [Next]_vars => Values'
  <1> USE DEF Values, Number, Closed, setting, signal, run, fds, output, thread
  <1>1. ASSUME Values, Start PROVE Values'
    <2>1. ASSUME Announce \/ AnnounceFails \/ Announced \/ CertsStart \/ CertsMade
          PROVE  Values'
      BY <1>1, <2>1 DEF Announce, AnnounceFails, Announced, CertsStart, CertsMade
    <2>2. ASSUME XdgStart \/ XdgReady \/ XdgNever \/ MitmStart \/ MitmReady \/ BuildFails
          PROVE  Values'
      BY <1>1, <2>2 DEF XdgStart, XdgReady, XdgNever, MitmStart, MitmReady, BuildFails
    <2>3. ASSUME Prepared \/ SpawnChild \/ InfoRead \/ InfoNever \/ GatewayStart
          PROVE  Values'
      BY <1>1, <2>3 DEF Prepared, SpawnChild, InfoRead, InfoNever, GatewayStart, StartReader
    <2> QED
      BY <1>1, <2>1, <2>2, <2>3 DEF Start
  <1>2. ASSUME Values, Stream PROVE Values'
    BY <1>2 DEF Stream, LogOpen, Take, Store, StreamEnds, LogClosed, ChildAwaited
  <1>3. ASSUME Values, Finally PROVE Values'
    BY <1>3 DEF Finally, CloseStdin, ClosePty, KillHelpers, RemoveTmp, EndRow, EndRowFails,
                TellServer, ServerNotTold, Ended
  <1>4. ASSUME Values, Fails PROVE Values'
    BY <1>4 DEF Fails, Cut
  <1>5. ASSUME Values, Reader PROVE Values'
    BY <1>5 DEF Reader, ReadPiece, SeeEnd, SeeClosed, UseOthers, StdinEnds, StdinRefused
  <1>6. ASSUME Values, World PROVE Values'
    BY <1>6 DEF World, Interrupt, InterruptCleanup, Cut, CommandPrints, ChildExits,
                OthersOpen, HelperDies
  <1>7. ASSUME Values, UNCHANGED vars PROVE Values'
    BY <1>7 DEF vars
  <1> QED
    BY <1>1, <1>2, <1>3, <1>4, <1>5, <1>6, <1>7 DEF Next

\* The sets.
LEMMA StepSets == Sets /\ [Next]_vars => Sets'
  <1> USE DEF Sets, Harm, setting, signal, run, fds, output, thread
  <1>1. ASSUME Sets, Start PROVE Sets'
    <2>1. ASSUME Announce \/ AnnounceFails \/ Announced \/ CertsStart \/ CertsMade
          PROVE  Sets'
      BY <1>1, <2>1 DEF Announce, AnnounceFails, Announced, CertsStart, CertsMade
    <2>2. ASSUME XdgStart \/ XdgReady \/ XdgNever \/ MitmStart \/ MitmReady \/ BuildFails
          PROVE  Sets'
      BY <1>1, <2>2 DEF XdgStart, XdgReady, XdgNever, MitmStart, MitmReady, BuildFails
    <2>3. ASSUME Prepared \/ SpawnChild \/ InfoRead \/ InfoNever \/ GatewayStart
          PROVE  Sets'
      BY <1>1, <2>3 DEF Prepared, SpawnChild, InfoRead, InfoNever, GatewayStart, StartReader
    <2> QED
      BY <1>1, <2>1, <2>2, <2>3 DEF Start
  <1>2. ASSUME Sets, Stream PROVE Sets'
    BY <1>2 DEF Stream, LogOpen, Take, Store, StreamEnds, LogClosed, ChildAwaited
  <1>3. ASSUME Sets, Finally PROVE Sets'
    BY <1>3 DEF Finally, CloseStdin, ClosePty, KillHelpers, RemoveTmp, EndRow, EndRowFails,
                TellServer, ServerNotTold, Ended
  <1>4. ASSUME Sets, Fails PROVE Sets'
    BY <1>4 DEF Fails, Cut
  <1>5. ASSUME Sets, Reader PROVE Sets'
    BY <1>5 DEF Reader, ReadPiece, SeeEnd, SeeClosed, UseOthers, StdinEnds, StdinRefused
  <1>6. ASSUME Sets, World PROVE Sets'
    BY <1>6 DEF World, Interrupt, InterruptCleanup, Cut, CommandPrints, ChildExits,
                OthersOpen, HelperDies
  <1>7. ASSUME Sets, UNCHANGED vars PROVE Sets'
    BY <1>7 DEF vars
  <1> QED
    BY <1>1, <1>2, <1>3, <1>4, <1>5, <1>6, <1>7 DEF Next

\* Helpers are started, held and killed.
LEMMA StepHelperTypes == HelperTypes /\ [Next]_vars => HelperTypes'
  <1> USE DEF HelperTypes, Helpers, Spawn, Kill, setting, signal, run, fds, output, thread
  <1>1. ASSUME HelperTypes, Start PROVE HelperTypes'
    <2>1. ASSUME Announce \/ AnnounceFails \/ Announced \/ CertsStart \/ CertsMade
          PROVE  HelperTypes'
      BY <1>1, <2>1 DEF Announce, AnnounceFails, Announced, CertsStart, CertsMade
    <2>2. ASSUME XdgStart \/ XdgReady \/ XdgNever \/ MitmStart \/ MitmReady \/ BuildFails
          PROVE  HelperTypes'
      BY <1>1, <2>2 DEF XdgStart, XdgReady, XdgNever, MitmStart, MitmReady, BuildFails
    <2>3. ASSUME Prepared \/ SpawnChild \/ InfoRead \/ InfoNever \/ GatewayStart
          PROVE  HelperTypes'
      BY <1>1, <2>3 DEF Prepared, SpawnChild, InfoRead, InfoNever, GatewayStart, StartReader
    <2> QED
      BY <1>1, <2>1, <2>2, <2>3 DEF Start
  <1>2. ASSUME HelperTypes, Stream PROVE HelperTypes'
    BY <1>2 DEF Stream, LogOpen, Take, Store, StreamEnds, LogClosed, ChildAwaited
  <1>3. ASSUME HelperTypes, Finally PROVE HelperTypes'
    BY <1>3 DEF Finally, CloseStdin, ClosePty, KillHelpers, RemoveTmp, EndRow, EndRowFails,
                TellServer, ServerNotTold, Ended
  <1>4. ASSUME HelperTypes, Fails PROVE HelperTypes'
    BY <1>4 DEF Fails, Cut
  <1>5. ASSUME HelperTypes, Reader PROVE HelperTypes'
    BY <1>5 DEF Reader, ReadPiece, SeeEnd, SeeClosed, UseOthers, StdinEnds, StdinRefused
  <1>6. ASSUME HelperTypes, World PROVE HelperTypes'
    <2>1. ASSUME Interrupt \/ InterruptCleanup \/ CommandPrints \/ ChildExits \/ OthersOpen
          PROVE  HelperTypes'
      BY <1>6, <2>1 DEF Cut, Interrupt, InterruptCleanup, CommandPrints, ChildExits, OthersOpen
    <2>2. ASSUME NEW h \in Helpers, HelperDies(h)
          PROVE  HelperTypes'
      BY <1>6, <2>2 DEF HelperDies
    <2> QED
      BY <1>6, <2>1, <2>2 DEF World
  <1>7. ASSUME HelperTypes, UNCHANGED vars PROVE HelperTypes'
    BY <1>7 DEF vars
  <1> QED
    BY <1>1, <1>2, <1>3, <1>4, <1>5, <1>6, <1>7 DEF Next

LEMMA StepType == ASSUME TypeInv, [Next]_vars PROVE TypeInv'
  BY StepFlags, StepCounts, StepPlaces, StepValues, StepSets, StepHelperTypes
     DEF TypeInv

LEMMA TypesKept == Spec => []TypeInv
  BY InitType, StepType, PTL DEF Spec

\* Every variable of the runner has its type in every reachable state.
THEOREM RunnerTyped == Spec => []RunnerTypeOK
  BY TypesKept, TypeParts, PTL

-----------------------------------------------------------------------------
(* The inductive invariants.  Each is kept by a lemma of its own, with one  *)
(* step for each group of actions.                                         *)

\* Nothing has hit the run before it is cut; what hits it before the try block
\* ends it.
StagesInv ==
    /\ pc \in Awaiting \cup {"idle"} /\ pc # "closing" => cutAt = "none"
    /\ pc = "closing" => cutAt \in Streaming \cup {"none"}
    /\ cutAt \in BeforeTry \cup {"idle"} => pc = "over"

\* A running helper is held, or is being waited for, or was when the run was cut.
HelpersInv ==
    /\ \A h \in Helpers : helper[h] = "running" =>
           h \in held \/ <<h, pc>> \in Unheld \/ <<h, cutAt>> \in Unheld
    /\ pc \in BeforeTry \cup {"idle"} \/ cutAt \in BeforeTry \cup {"idle"} => held = {}
    /\ pc \in {"tmp", "row", "tell"} \/ (pc = "over" /\ ~hurried) =>
           \A h \in held : helper[h] # "running"

InTry == cutAt \notin BeforeTry \cup {"idle"}

\* What the cleanup has done by the time it gets to each of its steps.
CleanupInv ==
    /\ pc \in {"kill", "tmp"} => files \subseteq {"tmpdir"}
    /\ pc \in {"row", "tell"} \/ (pc = "over" /\ ~hurried /\ InTry) => files = {}
    /\ (pc = "tell" \/ (pc = "over" /\ ~hurried /\ InTry)) /\ row = "open" => "row" \in missed
    /\ pc = "over" /\ ~hurried /\ InTry /\ (row = "open" \/ current) => "server" \in missed

\* Without --forward-stdin there is no pipe once the thread has started; it was
\* closed once, and by the run itself.
TtyInv == mode = "tty" => ~stdinVar
PipeInv == mode # "forward" /\ pc \in {"info", "gateway"} => ~stdinVar
ForwardingInv == mode # "forward" => ~forwarding
NumberInv == mode # "forward" /\ stdinVar => stdinW = "own"
StdinHarmInv == mode # "forward" => "stdin" \notin harmed

\* The terminal is closed by the cleanup.
MasterInv == pc \notin {"kill", "tmp", "row", "tell", "over"} => master \in {"none", "own"}

\* The thread has ended by then, unless the run was cut while it streamed.
StartingInv ==
    pc \in {"idle"} \cup BeforeTry \cup (Startup \ {"connecting"}) => reader = "none"
MarkedInv == marked => reader = "ended"
ReaderInv ==
    reader = "reading" => pc \in Streaming \cup {"connecting"}
                          \/ cutAt \in Streaming \cup {"connecting"}
MasterHarmInv == "master" \in harmed => cutAt \in Streaming \cup {"connecting"}

\* The thread goes on to the end of the output unless the run is cut.
OutputInv ==
    cutAt = "none" =>
        /\ marked => child = "exited" /\ queued = printed
        /\ pc \in {"closing", "waiting"} \cup Cleanup \cup {"over"} => marked /\ logged = queued

TerminalInv == raw => pc \in Streaming \cup {"connecting"} \/ cutAt = "connecting"

LEMMA InitInvs ==
    Init => /\ StagesInv /\ HelpersInv /\ CleanupInv /\ TerminalInv /\ OutputInv
            /\ TtyInv /\ PipeInv /\ ForwardingInv /\ NumberInv /\ StdinHarmInv
            /\ MasterInv /\ StartingInv /\ MarkedInv /\ ReaderInv /\ MasterHarmInv
  BY DEF Init, StagesInv, HelpersInv, CleanupInv, TerminalInv, InTry, OutputInv,
         TtyInv, PipeInv, ForwardingInv, NumberInv, StdinHarmInv, MasterInv, StartingInv,
         MarkedInv, ReaderInv, MasterHarmInv, Awaiting, BeforeTry, Startup, Streaming, Cleanup

LEMMA StepStages == StagesInv /\ [Next]_vars => StagesInv'
  <1> USE DEF StagesInv, Awaiting, BeforeTry, Startup, Streaming, Cleanup, Goto, setting, signal,
              run, fds, output, thread
  <1>1. ASSUME StagesInv, Start PROVE StagesInv'
    BY <1>1 DEF Start, Announce, AnnounceFails, Announced, CertsStart, CertsMade, XdgStart,
                XdgReady, XdgNever, MitmStart, MitmReady, BuildFails, Prepared, SpawnChild,
                InfoRead, InfoNever, GatewayStart, StartReader
  <1>2. ASSUME StagesInv, Stream PROVE StagesInv'
    BY <1>2 DEF Stream, LogOpen, Take, Store, StreamEnds, LogClosed, ChildAwaited
  <1>3. ASSUME StagesInv, Finally PROVE StagesInv'
    BY <1>3 DEF Finally, CloseStdin, ClosePty, KillHelpers, RemoveTmp, EndRow, EndRowFails,
                TellServer, ServerNotTold, Ended
  <1>4. ASSUME StagesInv, Fails PROVE StagesInv'
    BY <1>4 DEF Fails, Cut
  <1>5. ASSUME StagesInv, Reader PROVE StagesInv'
    BY <1>5 DEF Reader, ReadPiece, SeeEnd, SeeClosed, UseOthers, StdinEnds, StdinRefused
  <1>6. ASSUME StagesInv, World PROVE StagesInv'
    BY <1>6 DEF World, Interrupt, InterruptCleanup, Cut, CommandPrints, ChildExits, OthersOpen,
                HelperDies
  <1>7. ASSUME StagesInv, UNCHANGED vars PROVE StagesInv'
    BY <1>7 DEF vars
  <1> QED
    BY <1>1, <1>2, <1>3, <1>4, <1>5, <1>6, <1>7 DEF Next

LEMMA StepTerminal == StagesInv /\ TerminalInv /\ [Next]_vars => TerminalInv'
  <1> USE DEF StagesInv, TerminalInv, Awaiting, BeforeTry, Startup, Streaming, Cleanup, Goto,
              setting, signal, run, fds, output, thread
  <1>1. ASSUME StagesInv, TerminalInv, Start PROVE TerminalInv'
    BY <1>1 DEF Start, Announce, AnnounceFails, Announced, CertsStart, CertsMade, XdgStart,
                XdgReady, XdgNever, MitmStart, MitmReady, BuildFails, Prepared, SpawnChild,
                InfoRead, InfoNever, GatewayStart, StartReader
  <1>2. ASSUME StagesInv, TerminalInv, Stream PROVE TerminalInv'
    BY <1>2 DEF Stream, LogOpen, Take, Store, StreamEnds, LogClosed, ChildAwaited
  <1>3. ASSUME StagesInv, TerminalInv, Finally PROVE TerminalInv'
    BY <1>3 DEF Finally, CloseStdin, ClosePty, KillHelpers, RemoveTmp, EndRow, EndRowFails,
                TellServer, ServerNotTold, Ended
  <1>4. ASSUME StagesInv, TerminalInv, Fails PROVE TerminalInv'
    BY <1>4 DEF Fails, Cut
  <1>5. ASSUME StagesInv, TerminalInv, Reader PROVE TerminalInv'
    BY <1>5 DEF Reader, ReadPiece, SeeEnd, SeeClosed, UseOthers, StdinEnds, StdinRefused
  <1>6. ASSUME StagesInv, TerminalInv, World PROVE TerminalInv'
    BY <1>6 DEF World, Interrupt, InterruptCleanup, Cut, CommandPrints, ChildExits, OthersOpen,
                HelperDies
  <1>7. ASSUME StagesInv, TerminalInv, UNCHANGED vars PROVE TerminalInv'
    BY <1>7 DEF vars
  <1> QED
    BY <1>1, <1>2, <1>3, <1>4, <1>5, <1>6, <1>7 DEF Next

LEMMA StepHelpers == HelperTypes /\ StagesInv /\ HelpersInv /\ [Next]_vars => HelpersInv'
  <1> USE DEF HelperTypes, StagesInv, HelpersInv, Unheld, Helpers, Spawn, Kill, Awaiting,
              BeforeTry, Startup, Streaming, Cleanup, Goto, setting, signal, run, fds, output,
              thread
  <1>1. ASSUME HelperTypes, StagesInv, HelpersInv, Start PROVE HelpersInv'
    BY <1>1 DEF Start, Announce, AnnounceFails, Announced, CertsStart, CertsMade, XdgStart,
                XdgReady, XdgNever, MitmStart, MitmReady, BuildFails, Prepared, SpawnChild,
                InfoRead, InfoNever, GatewayStart, StartReader
  <1>2. ASSUME HelperTypes, StagesInv, HelpersInv, Stream PROVE HelpersInv'
    BY <1>2 DEF Stream, LogOpen, Take, Store, StreamEnds, LogClosed, ChildAwaited
  <1>3. ASSUME HelperTypes, StagesInv, HelpersInv, Finally PROVE HelpersInv'
    BY <1>3 DEF Finally, CloseStdin, ClosePty, KillHelpers, RemoveTmp, EndRow, EndRowFails,
                TellServer, ServerNotTold, Ended
  <1>4. ASSUME HelperTypes, StagesInv, HelpersInv, Fails PROVE HelpersInv'
    BY <1>4 DEF Fails, Cut
  <1>5. ASSUME HelperTypes, StagesInv, HelpersInv, Reader PROVE HelpersInv'
    <2>1. UNCHANGED <<pc, cutAt, hurried, helper, held>>
      BY <1>5 DEF Reader, ReadPiece, SeeEnd, SeeClosed, UseOthers, StdinEnds, StdinRefused
    <2> QED
      BY <1>5, <2>1
  <1>6. ASSUME HelperTypes, StagesInv, HelpersInv, World PROVE HelpersInv'
    <2>1. ASSUME Interrupt \/ InterruptCleanup
          PROVE  HelpersInv'
      BY <1>6, <2>1 DEF Cut, Interrupt, InterruptCleanup
    <2>2. ASSUME CommandPrints \/ ChildExits \/ OthersOpen
          PROVE  HelpersInv'
      BY <1>6, <2>2 DEF CommandPrints, ChildExits, OthersOpen
    <2>3. ASSUME NEW h \in Helpers, HelperDies(h)
          PROVE  HelpersInv'
      BY <1>6, <2>3 DEF HelperDies
    <2> QED
      BY <1>6, <2>1, <2>2, <2>3 DEF World
  <1>7. ASSUME HelperTypes, StagesInv, HelpersInv, UNCHANGED vars PROVE HelpersInv'
    BY <1>7 DEF vars
  <1> QED
    BY <1>1, <1>2, <1>3, <1>4, <1>5, <1>6, <1>7 DEF Next

LEMMA StepCleanup == Sets /\ StagesInv /\ CleanupInv /\ [Next]_vars => CleanupInv'
  <1> USE DEF Sets, StagesInv, CleanupInv, InTry, Awaiting, BeforeTry, Startup, Streaming,
              Cleanup, Goto, setting, signal, run, fds, output, thread
  <1>1. ASSUME Sets, StagesInv, CleanupInv, Start PROVE CleanupInv'
    BY <1>1 DEF Start, Announce, AnnounceFails, Announced, CertsStart, CertsMade, XdgStart,
                XdgReady, XdgNever, MitmStart, MitmReady, BuildFails, Prepared, SpawnChild,
                InfoRead, InfoNever, GatewayStart, StartReader
  <1>2. ASSUME Sets, StagesInv, CleanupInv, Stream PROVE CleanupInv'
    BY <1>2 DEF Stream, LogOpen, Take, Store, StreamEnds, LogClosed, ChildAwaited
  <1>3. ASSUME Sets, StagesInv, CleanupInv, Finally PROVE CleanupInv'
    BY <1>3 DEF Finally, CloseStdin, ClosePty, KillHelpers, RemoveTmp, EndRow, EndRowFails,
                TellServer, ServerNotTold, Ended
  <1>4. ASSUME Sets, StagesInv, CleanupInv, Fails PROVE CleanupInv'
    BY <1>4 DEF Fails, Cut
  <1>5. ASSUME Sets, StagesInv, CleanupInv, Reader PROVE CleanupInv'
    <2>1. UNCHANGED <<pc, cutAt, hurried, files, row, missed, current>>
      BY <1>5 DEF Reader, ReadPiece, SeeEnd, SeeClosed, UseOthers, StdinEnds, StdinRefused
    <2> QED
      BY <1>5, <2>1
  <1>6. ASSUME Sets, StagesInv, CleanupInv, World PROVE CleanupInv'
    <2>1. ASSUME Interrupt
          PROVE  CleanupInv'
      BY <1>6, <2>1 DEF Cut, Interrupt
    <2>2. ASSUME InterruptCleanup
          PROVE  CleanupInv'
      BY <1>6, <2>2 DEF InterruptCleanup
    <2>3. ASSUME CommandPrints \/ ChildExits
          PROVE  CleanupInv'
      <3>1. UNCHANGED <<pc, cutAt, hurried, files, row, missed, current>>
        BY <2>3 DEF CommandPrints, ChildExits
      <3> QED
        BY <1>6, <3>1
    <2>4. ASSUME OthersOpen
          PROVE  CleanupInv'
      BY <1>6, <2>4 DEF OthersOpen
    <2>5. ASSUME NEW h \in Helpers, HelperDies(h)
          PROVE  CleanupInv'
      BY <1>6, <2>5 DEF HelperDies
    <2> QED
      BY <1>6, <2>1, <2>2, <2>3, <2>4, <2>5 DEF World
  <1>7. ASSUME Sets, StagesInv, CleanupInv, UNCHANGED vars PROVE CleanupInv'
    BY <1>7 DEF vars
  <1> QED
    BY <1>1, <1>2, <1>3, <1>4, <1>5, <1>6, <1>7 DEF Next

LEMMA HarmOf ==
    /\ \A n : "master" \notin Harm(n, "stdin")
    /\ \A n, w : n # "foreign" => Harm(n, w) = {}
  BY DEF Harm

LEMMA StepTty == TtyInv /\ [Next]_vars => TtyInv'
  <1> USE DEF TtyInv, Goto, setting, signal, run, fds, output, thread
  <1>1. ASSUME TtyInv, Start PROVE TtyInv'
    BY <1>1 DEF Start, Announce, AnnounceFails, Announced, CertsStart, CertsMade, XdgStart,
                XdgReady, XdgNever, MitmStart, MitmReady, BuildFails, Prepared, SpawnChild,
                InfoRead, InfoNever, GatewayStart, StartReader
  <1>2. ASSUME TtyInv, Stream PROVE TtyInv'
    BY <1>2 DEF Stream, LogOpen, Take, Store, StreamEnds, LogClosed, ChildAwaited
  <1>3. ASSUME TtyInv, Finally PROVE TtyInv'
    BY <1>3 DEF Finally, CloseStdin, ClosePty, KillHelpers, RemoveTmp, EndRow, EndRowFails,
                TellServer, ServerNotTold, Ended
  <1>4. ASSUME TtyInv, Fails PROVE TtyInv'
    BY <1>4 DEF Fails, Cut
  <1>5. ASSUME TtyInv, Reader PROVE TtyInv'
    BY <1>5 DEF Reader, ReadPiece, SeeEnd, SeeClosed, UseOthers, StdinEnds, StdinRefused
  <1>6. ASSUME TtyInv, World PROVE TtyInv'
    BY <1>6 DEF World, Interrupt, InterruptCleanup, Cut, CommandPrints, ChildExits, OthersOpen,
                HelperDies
  <1>7. ASSUME TtyInv, UNCHANGED vars PROVE TtyInv'
    BY <1>7 DEF vars
  <1> QED
    BY <1>1, <1>2, <1>3, <1>4, <1>5, <1>6, <1>7 DEF Next

LEMMA StepPipe == Values /\ TtyInv /\ PipeInv /\ [Next]_vars => PipeInv'
  <1> USE DEF Values, Number, TtyInv, PipeInv, Awaiting, BeforeTry, Startup, Streaming, Cleanup,
              Goto, setting, signal, run, fds, output, thread
  <1>1. ASSUME Values, TtyInv, PipeInv, Start PROVE PipeInv'
    BY <1>1 DEF Start, Announce, AnnounceFails, Announced, CertsStart, CertsMade, XdgStart,
                XdgReady, XdgNever, MitmStart, MitmReady, BuildFails, Prepared, SpawnChild,
                InfoRead, InfoNever, GatewayStart, StartReader
  <1>2. ASSUME Values, TtyInv, PipeInv, Stream PROVE PipeInv'
    BY <1>2 DEF Stream, LogOpen, Take, Store, StreamEnds, LogClosed, ChildAwaited
  <1>3. ASSUME Values, TtyInv, PipeInv, Finally PROVE PipeInv'
    BY <1>3 DEF Finally, CloseStdin, ClosePty, KillHelpers, RemoveTmp, EndRow, EndRowFails,
                TellServer, ServerNotTold, Ended
  <1>4. ASSUME Values, TtyInv, PipeInv, Fails PROVE PipeInv'
    BY <1>4 DEF Fails, Cut
  <1>5. ASSUME Values, TtyInv, PipeInv, Reader PROVE PipeInv'
    BY <1>5 DEF Reader, ReadPiece, SeeEnd, SeeClosed, UseOthers, StdinEnds, StdinRefused
  <1>6. ASSUME Values, TtyInv, PipeInv, World PROVE PipeInv'
    BY <1>6 DEF World, Interrupt, InterruptCleanup, Cut, CommandPrints, ChildExits, OthersOpen,
                HelperDies
  <1>7. ASSUME Values, TtyInv, PipeInv, UNCHANGED vars PROVE PipeInv'
    BY <1>7 DEF vars
  <1> QED
    BY <1>1, <1>2, <1>3, <1>4, <1>5, <1>6, <1>7 DEF Next

LEMMA StepForwarding == Values /\ PipeInv /\ ForwardingInv /\ [Next]_vars => ForwardingInv'
  <1> USE DEF Values, Number, PipeInv, ForwardingInv, Awaiting, BeforeTry, Startup, Streaming,
              Cleanup, Goto, setting, signal, run, fds, output, thread
  <1>1. ASSUME Values, PipeInv, ForwardingInv, Start PROVE ForwardingInv'
    BY <1>1 DEF Start, Announce, AnnounceFails, Announced, CertsStart, CertsMade, XdgStart,
                XdgReady, XdgNever, MitmStart, MitmReady, BuildFails, Prepared, SpawnChild,
                InfoRead, InfoNever, GatewayStart, StartReader
  <1>2. ASSUME Values, PipeInv, ForwardingInv, Stream PROVE ForwardingInv'
    BY <1>2 DEF Stream, LogOpen, Take, Store, StreamEnds, LogClosed, ChildAwaited
  <1>3. ASSUME Values, PipeInv, ForwardingInv, Finally PROVE ForwardingInv'
    BY <1>3 DEF Finally, CloseStdin, ClosePty, KillHelpers, RemoveTmp, EndRow, EndRowFails,
                TellServer, ServerNotTold, Ended
  <1>4. ASSUME Values, PipeInv, ForwardingInv, Fails PROVE ForwardingInv'
    BY <1>4 DEF Fails, Cut
  <1>5. ASSUME Values, PipeInv, ForwardingInv, Reader PROVE ForwardingInv'
    BY <1>5 DEF Reader, ReadPiece, SeeEnd, SeeClosed, UseOthers, StdinEnds, StdinRefused
  <1>6. ASSUME Values, PipeInv, ForwardingInv, World PROVE ForwardingInv'
    BY <1>6 DEF World, Interrupt, InterruptCleanup, Cut, CommandPrints, ChildExits, OthersOpen,
                HelperDies
  <1>7. ASSUME Values, PipeInv, ForwardingInv, UNCHANGED vars PROVE ForwardingInv'
    BY <1>7 DEF vars
  <1> QED
    BY <1>1, <1>2, <1>3, <1>4, <1>5, <1>6, <1>7 DEF Next

LEMMA StepNumber == ForwardingInv /\ NumberInv /\ [Next]_vars => NumberInv'
  <1> USE DEF ForwardingInv, NumberInv, Closed, Awaiting, BeforeTry, Startup, Streaming, Cleanup,
              Goto, setting, signal, run, fds, output, thread
  <1>1. ASSUME ForwardingInv, NumberInv, Start PROVE NumberInv'
    BY <1>1 DEF Start, Announce, AnnounceFails, Announced, CertsStart, CertsMade, XdgStart,
                XdgReady, XdgNever, MitmStart, MitmReady, BuildFails, Prepared, SpawnChild,
                InfoRead, InfoNever, GatewayStart, StartReader
  <1>2. ASSUME ForwardingInv, NumberInv, Stream PROVE NumberInv'
    BY <1>2 DEF Stream, LogOpen, Take, Store, StreamEnds, LogClosed, ChildAwaited
  <1>3. ASSUME ForwardingInv, NumberInv, Finally PROVE NumberInv'
    BY <1>3 DEF Finally, CloseStdin, ClosePty, KillHelpers, RemoveTmp, EndRow, EndRowFails,
                TellServer, ServerNotTold, Ended
  <1>4. ASSUME ForwardingInv, NumberInv, Fails PROVE NumberInv'
    BY <1>4 DEF Fails, Cut
  <1>5. ASSUME ForwardingInv, NumberInv, Reader PROVE NumberInv'
    BY <1>5 DEF Reader, ReadPiece, SeeEnd, SeeClosed, UseOthers, StdinEnds, StdinRefused
  <1>6. ASSUME ForwardingInv, NumberInv, World PROVE NumberInv'
    BY <1>6 DEF World, Interrupt, InterruptCleanup, Cut, CommandPrints, ChildExits, OthersOpen,
                HelperDies
  <1>7. ASSUME ForwardingInv, NumberInv, UNCHANGED vars PROVE NumberInv'
    BY <1>7 DEF vars
  <1> QED
    BY <1>1, <1>2, <1>3, <1>4, <1>5, <1>6, <1>7 DEF Next

LEMMA StepStdinHarm == ForwardingInv /\ NumberInv /\ StdinHarmInv /\ [Next]_vars => StdinHarmInv'
  <1> USE DEF ForwardingInv, NumberInv, StdinHarmInv, Harm, Awaiting, BeforeTry, Startup,
              Streaming, Cleanup, Goto, setting, signal, run, fds, output, thread
  <1>1. ASSUME ForwardingInv, NumberInv, StdinHarmInv, Start PROVE StdinHarmInv'
    BY <1>1 DEF Start, Announce, AnnounceFails, Announced, CertsStart, CertsMade, XdgStart,
                XdgReady, XdgNever, MitmStart, MitmReady, BuildFails, Prepared, SpawnChild,
                InfoRead, InfoNever, GatewayStart, StartReader
  <1>2. ASSUME ForwardingInv, NumberInv, StdinHarmInv, Stream PROVE StdinHarmInv'
    BY <1>2 DEF Stream, LogOpen, Take, Store, StreamEnds, LogClosed, ChildAwaited
  <1>3. ASSUME ForwardingInv, NumberInv, StdinHarmInv, Finally PROVE StdinHarmInv'
    BY <1>3 DEF Finally, CloseStdin, ClosePty, KillHelpers, RemoveTmp, EndRow, EndRowFails,
                TellServer, ServerNotTold, Ended
  <1>4. ASSUME ForwardingInv, NumberInv, StdinHarmInv, Fails PROVE StdinHarmInv'
    BY <1>4 DEF Fails, Cut
  <1>5. ASSUME ForwardingInv, NumberInv, StdinHarmInv, Reader PROVE StdinHarmInv'
    BY <1>5 DEF Reader, ReadPiece, SeeEnd, SeeClosed, UseOthers, StdinEnds, StdinRefused
  <1>6. ASSUME ForwardingInv, NumberInv, StdinHarmInv, World PROVE StdinHarmInv'
    BY <1>6 DEF World, Interrupt, InterruptCleanup, Cut, CommandPrints, ChildExits, OthersOpen,
                HelperDies
  <1>7. ASSUME ForwardingInv, NumberInv, StdinHarmInv, UNCHANGED vars PROVE StdinHarmInv'
    BY <1>7 DEF vars
  <1> QED
    BY <1>1, <1>2, <1>3, <1>4, <1>5, <1>6, <1>7 DEF Next

LEMMA StepMaster == MasterInv /\ [Next]_vars => MasterInv'
  <1> USE DEF MasterInv, Closed, Awaiting, BeforeTry, Startup, Streaming, Cleanup, Goto, setting,
              signal, run, fds, output, thread
  <1>1. ASSUME MasterInv, Start PROVE MasterInv'
    BY <1>1 DEF Start, Announce, AnnounceFails, Announced, CertsStart, CertsMade, XdgStart,
                XdgReady, XdgNever, MitmStart, MitmReady, BuildFails, Prepared, SpawnChild,
                InfoRead, InfoNever, GatewayStart, StartReader
  <1>2. ASSUME MasterInv, Stream PROVE MasterInv'
    BY <1>2 DEF Stream, LogOpen, Take, Store, StreamEnds, LogClosed, ChildAwaited
  <1>3. ASSUME MasterInv, Finally PROVE MasterInv'
    BY <1>3 DEF Finally, CloseStdin, ClosePty, KillHelpers, RemoveTmp, EndRow, EndRowFails,
                TellServer, ServerNotTold, Ended
  <1>4. ASSUME MasterInv, Fails PROVE MasterInv'
    BY <1>4 DEF Fails, Cut
  <1>5. ASSUME MasterInv, Reader PROVE MasterInv'
    BY <1>5 DEF Reader, ReadPiece, SeeEnd, SeeClosed, UseOthers, StdinEnds, StdinRefused
  <1>6. ASSUME MasterInv, World PROVE MasterInv'
    BY <1>6 DEF World, Interrupt, InterruptCleanup, Cut, CommandPrints, ChildExits, OthersOpen,
                HelperDies
  <1>7. ASSUME MasterInv, UNCHANGED vars PROVE MasterInv'
    BY <1>7 DEF vars
  <1> QED
    BY <1>1, <1>2, <1>3, <1>4, <1>5, <1>6, <1>7 DEF Next

LEMMA StepStarting == StartingInv /\ [Next]_vars => StartingInv'
  <1> USE DEF StartingInv, Awaiting, BeforeTry, Startup, Streaming, Cleanup, Goto, setting,
              signal, run, fds, output, thread
  <1>1. ASSUME StartingInv, Start PROVE StartingInv'
    BY <1>1 DEF Start, Announce, AnnounceFails, Announced, CertsStart, CertsMade, XdgStart,
                XdgReady, XdgNever, MitmStart, MitmReady, BuildFails, Prepared, SpawnChild,
                InfoRead, InfoNever, GatewayStart, StartReader
  <1>2. ASSUME StartingInv, Stream PROVE StartingInv'
    BY <1>2 DEF Stream, LogOpen, Take, Store, StreamEnds, LogClosed, ChildAwaited
  <1>3. ASSUME StartingInv, Finally PROVE StartingInv'
    BY <1>3 DEF Finally, CloseStdin, ClosePty, KillHelpers, RemoveTmp, EndRow, EndRowFails,
                TellServer, ServerNotTold, Ended
  <1>4. ASSUME StartingInv, Fails PROVE StartingInv'
    BY <1>4 DEF Fails, Cut
  <1>5. ASSUME StartingInv, Reader PROVE StartingInv'
    BY <1>5 DEF Reader, ReadPiece, SeeEnd, SeeClosed, UseOthers, StdinEnds, StdinRefused
  <1>6. ASSUME StartingInv, World PROVE StartingInv'
    BY <1>6 DEF World, Interrupt, InterruptCleanup, Cut, CommandPrints, ChildExits, OthersOpen,
                HelperDies
  <1>7. ASSUME StartingInv, UNCHANGED vars PROVE StartingInv'
    BY <1>7 DEF vars
  <1> QED
    BY <1>1, <1>2, <1>3, <1>4, <1>5, <1>6, <1>7 DEF Next

LEMMA StepMarked == StartingInv /\ MarkedInv /\ [Next]_vars => MarkedInv'
  <1> USE DEF StartingInv, MarkedInv, Startup, Goto, setting, signal, run, fds, output, thread
  <1>1. ASSUME StartingInv, MarkedInv, Start PROVE MarkedInv'
    BY <1>1 DEF Start, Announce, AnnounceFails, Announced, CertsStart, CertsMade, XdgStart,
                XdgReady, XdgNever, MitmStart, MitmReady, BuildFails, Prepared, SpawnChild,
                InfoRead, InfoNever, GatewayStart, StartReader
  <1>2. ASSUME StartingInv, MarkedInv, Stream PROVE MarkedInv'
    BY <1>2 DEF Stream, LogOpen, Take, Store, StreamEnds, LogClosed, ChildAwaited
  <1>3. ASSUME StartingInv, MarkedInv, Finally PROVE MarkedInv'
    BY <1>3 DEF Finally, CloseStdin, ClosePty, KillHelpers, RemoveTmp, EndRow, EndRowFails,
                TellServer, ServerNotTold, Ended
  <1>4. ASSUME StartingInv, MarkedInv, Fails PROVE MarkedInv'
    BY <1>4 DEF Fails, Cut
  <1>5. ASSUME StartingInv, MarkedInv, Reader PROVE MarkedInv'
    BY <1>5 DEF Reader, ReadPiece, SeeEnd, SeeClosed, UseOthers, StdinEnds, StdinRefused
  <1>6. ASSUME StartingInv, MarkedInv, World PROVE MarkedInv'
    BY <1>6 DEF World, Interrupt, InterruptCleanup, Cut, CommandPrints, ChildExits, OthersOpen,
                HelperDies
  <1>7. ASSUME StartingInv, MarkedInv, UNCHANGED vars PROVE MarkedInv'
    BY <1>7 DEF vars
  <1> QED
    BY <1>1, <1>2, <1>3, <1>4, <1>5, <1>6, <1>7 DEF Next

LEMMA StepReader == StagesInv /\ MarkedInv /\ ReaderInv /\ [Next]_vars => ReaderInv'
  <1> USE DEF StagesInv, MarkedInv, ReaderInv, Awaiting, BeforeTry, Startup, Streaming, Cleanup,
              Goto, setting, signal, run, fds, output, thread
  <1>1. ASSUME StagesInv, MarkedInv, ReaderInv, Start PROVE ReaderInv'
    BY <1>1 DEF Start, Announce, AnnounceFails, Announced, CertsStart, CertsMade, XdgStart,
                XdgReady, XdgNever, MitmStart, MitmReady, BuildFails, Prepared, SpawnChild,
                InfoRead, InfoNever, GatewayStart, StartReader
  <1>2. ASSUME StagesInv, MarkedInv, ReaderInv, Stream PROVE ReaderInv'
    BY <1>2 DEF Stream, LogOpen, Take, Store, StreamEnds, LogClosed, ChildAwaited
  <1>3. ASSUME StagesInv, MarkedInv, ReaderInv, Finally PROVE ReaderInv'
    BY <1>3 DEF Finally, CloseStdin, ClosePty, KillHelpers, RemoveTmp, EndRow, EndRowFails,
                TellServer, ServerNotTold, Ended
  <1>4. ASSUME StagesInv, MarkedInv, ReaderInv, Fails PROVE ReaderInv'
    BY <1>4 DEF Fails, Cut
  <1>5. ASSUME StagesInv, MarkedInv, ReaderInv, Reader PROVE ReaderInv'
    BY <1>5 DEF Reader, ReadPiece, SeeEnd, SeeClosed, UseOthers, StdinEnds, StdinRefused
  <1>6. ASSUME StagesInv, MarkedInv, ReaderInv, World PROVE ReaderInv'
    BY <1>6 DEF World, Interrupt, InterruptCleanup, Cut, CommandPrints, ChildExits, OthersOpen,
                HelperDies
  <1>7. ASSUME StagesInv, MarkedInv, ReaderInv, UNCHANGED vars PROVE ReaderInv'
    BY <1>7 DEF vars
  <1> QED
    BY <1>1, <1>2, <1>3, <1>4, <1>5, <1>6, <1>7 DEF Next

LEMMA StepMasterHarm ==
    StagesInv /\ MasterInv /\ ReaderInv /\ MasterHarmInv
    /\ [Next]_vars => MasterHarmInv'
  <1> USE HarmOf DEF StagesInv, MasterInv, ReaderInv, MasterHarmInv, Awaiting, BeforeTry, Startup,
                     Streaming, Cleanup, Goto, setting, signal, run, fds, output, thread
  <1>1. ASSUME StagesInv, MasterInv, ReaderInv, MasterHarmInv, Start PROVE MasterHarmInv'
    BY <1>1 DEF Start, Announce, AnnounceFails, Announced, CertsStart, CertsMade, XdgStart,
                XdgReady, XdgNever, MitmStart, MitmReady, BuildFails, Prepared, SpawnChild,
                InfoRead, InfoNever, GatewayStart, StartReader
  <1>2. ASSUME StagesInv, MasterInv, ReaderInv, MasterHarmInv, Stream PROVE MasterHarmInv'
    BY <1>2 DEF Stream, LogOpen, Take, Store, StreamEnds, LogClosed, ChildAwaited
  <1>3. ASSUME StagesInv, MasterInv, ReaderInv, MasterHarmInv, Finally PROVE MasterHarmInv'
    BY <1>3 DEF Finally, CloseStdin, ClosePty, KillHelpers, RemoveTmp, EndRow, EndRowFails,
                TellServer, ServerNotTold, Ended
  <1>4. ASSUME StagesInv, MasterInv, ReaderInv, MasterHarmInv, Fails PROVE MasterHarmInv'
    BY <1>4 DEF Fails, Cut
  <1>5. ASSUME StagesInv, MasterInv, ReaderInv, MasterHarmInv, Reader PROVE MasterHarmInv'
    BY <1>5 DEF Reader, ReadPiece, SeeEnd, SeeClosed, UseOthers, StdinEnds, StdinRefused
  <1>6. ASSUME StagesInv, MasterInv, ReaderInv, MasterHarmInv, World PROVE MasterHarmInv'
    BY <1>6 DEF World, Interrupt, InterruptCleanup, Cut, CommandPrints, ChildExits, OthersOpen,
                HelperDies
  <1>7. ASSUME StagesInv, MasterInv, ReaderInv, MasterHarmInv, UNCHANGED vars
        PROVE  MasterHarmInv'
    BY <1>7 DEF vars
  <1> QED
    BY <1>1, <1>2, <1>3, <1>4, <1>5, <1>6, <1>7 DEF Next

LEMMA StepOutput ==
    Counts /\ StagesInv /\ MasterInv /\ StartingInv /\ MarkedInv /\ ReaderInv /\ OutputInv
    /\ [Next]_vars => OutputInv'
  <1> USE RunnerBounds DEF StagesInv, Counts, MasterInv, StartingInv, MarkedInv, ReaderInv,
                           OutputInv, Awaiting, BeforeTry, Startup, Streaming, Cleanup, Goto,
                           setting, signal, run, fds, output, thread
  <1>1. ASSUME Counts, StagesInv, MasterInv, StartingInv, MarkedInv, ReaderInv, OutputInv, Start
        PROVE  OutputInv'
    BY <1>1 DEF Start, Announce, AnnounceFails, Announced, CertsStart, CertsMade, XdgStart,
                XdgReady, XdgNever, MitmStart, MitmReady, BuildFails, Prepared, SpawnChild,
                InfoRead, InfoNever, GatewayStart, StartReader
  <1>2. ASSUME Counts, StagesInv, MasterInv, StartingInv, MarkedInv, ReaderInv, OutputInv, Stream
        PROVE  OutputInv'
    BY <1>2 DEF Stream, LogOpen, Take, Store, StreamEnds, LogClosed, ChildAwaited
  <1>3. ASSUME Counts, StagesInv, MasterInv, StartingInv, MarkedInv, ReaderInv, OutputInv, Finally
        PROVE  OutputInv'
    BY <1>3 DEF Finally, CloseStdin, ClosePty, KillHelpers, RemoveTmp, EndRow, EndRowFails,
                TellServer, ServerNotTold, Ended
  <1>4. ASSUME Counts, StagesInv, MasterInv, StartingInv, MarkedInv, ReaderInv, OutputInv, Fails
        PROVE  OutputInv'
    BY <1>4 DEF Fails, Cut
  <1>5. ASSUME Counts, StagesInv, MasterInv, StartingInv, MarkedInv, ReaderInv, OutputInv, Reader
        PROVE  OutputInv'
    BY <1>5 DEF Reader, ReadPiece, SeeEnd, SeeClosed, UseOthers, StdinEnds, StdinRefused
  <1>6. ASSUME Counts, StagesInv, MasterInv, StartingInv, MarkedInv, ReaderInv, OutputInv, World
        PROVE  OutputInv'
    BY <1>6 DEF World, Interrupt, InterruptCleanup, Cut, CommandPrints, ChildExits, OthersOpen,
                HelperDies
  <1>7. ASSUME Counts, StagesInv, MasterInv, StartingInv, MarkedInv, ReaderInv, OutputInv,
               UNCHANGED vars
        PROVE  OutputInv'
    BY <1>7 DEF vars
  <1> QED
    BY <1>1, <1>2, <1>3, <1>4, <1>5, <1>6, <1>7 DEF Next

-----------------------------------------------------------------------------
RunnerInv ==
    /\ TypeInv /\ StagesInv /\ HelpersInv /\ CleanupInv /\ TerminalInv /\ OutputInv
    /\ TtyInv /\ PipeInv /\ ForwardingInv /\ NumberInv /\ StdinHarmInv
    /\ MasterInv /\ StartingInv /\ MarkedInv /\ ReaderInv /\ MasterHarmInv

LEMMA InvKept == Spec => []RunnerInv
  <1>1. Init => RunnerInv
    BY InitType, InitInvs DEF RunnerInv
  <1>2. RunnerInv /\ [Next]_vars => RunnerInv'
    BY StepType, StepStages, StepHelpers, StepCleanup, StepTerminal, StepOutput, StepTty, StepPipe,
       StepForwarding, StepNumber, StepStdinHarm, StepMaster, StepStarting, StepMarked,
       StepReader, StepMasterHarm
       DEF RunnerInv, TypeInv
  <1> QED
    BY <1>1, <1>2, PTL DEF Spec

\* A helper process that outlives a run was being waited for when the run was cut.
THEOREM HelpersEnd == Spec => []HelpersStopped
  <1>1. RunnerInv => HelpersStopped
    BY DEF RunnerInv, HelpersInv, HelpersStopped, Unheld
  <1> QED
    BY <1>1, InvKept, PTL

\* A run that got into its try block leaves no file, and its end is recorded unless
\* both the table and the server refused.
THEOREM EndIsRecorded == Spec => []EndRecorded
  <1>1. RunnerInv => EndRecorded
    BY DEF RunnerInv, CleanupInv, InTry, EndRecorded, TypeInv, Sets
  <1> QED
    BY <1>1, InvKept, PTL

\* A stream that ends by itself has stored all that was printed.
THEOREM OutputIsComplete == Spec => []OutputComplete
  <1>1. RunnerInv => OutputComplete
    BY DEF RunnerInv, OutputInv, OutputComplete
  <1> QED
    BY <1>1, InvKept, PTL

\* Numbers that have come to name another's file are used in the two known cases only.
THEOREM OwnFiles == Spec => []OwnFilesOnly
  <1>1. RunnerInv => OwnFilesOnly
    BY DEF RunnerInv, StdinHarmInv, MasterHarmInv, OwnFilesOnly
  <1> QED
    BY <1>1, InvKept, PTL

\* The terminal is left raw only if opening the log failed.
THEOREM TerminalIsRestored == Spec => []TerminalRestored
  <1>1. RunnerInv => TerminalRestored
    BY DEF RunnerInv, TerminalInv, TerminalRestored, Streaming
  <1> QED
    BY <1>1, InvKept, PTL
=============================================================================
