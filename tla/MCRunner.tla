------------------------------ MODULE MCRunner ------------------------------
(* Bounded instances for TLC of SandboxRunner and Mounts.  They share no     *)
(* state, so one run checks them side by side: a part moves only while the   *)
(* other rests.                                                              *)
EXTENDS SandboxRunner, Mounts

\* /, /home, /home/cwd, /home/cwd/.git, /home/bin, /home/bin/link, which is the program,
\* the resolv.conf and the script.
MCPaths == {"root", "home", "cwd", "git", "bin", "link", "resolv", "script"}
MCBelow == {<<p, p>> : p \in MCPaths} \cup {<<p, "root">> : p \in MCPaths}
           \cup {<<p, "home">> : p \in {"cwd", "git", "bin", "link"}}
           \cup {<<"git", "cwd">>, <<"link", "bin">>}
MCLength == [p \in MCPaths |-> CASE p = "root" -> 1 [] p = "home" -> 5
                                 [] p \in {"cwd", "bin"} -> 9
                                 [] p \in {"git", "link", "resolv"} -> 14
                                 [] p = "script" -> 23]

MCInit == Init /\ MountInit
RunnerRests == Init /\ mode = "tty" /\ xdgWanted

RunnerPart == MountInit /\ Next /\ UNCHANGED mountVars
MountPart == RunnerRests /\ MountNext /\ UNCHANGED vars

MCSpec == MCInit /\ [][RunnerPart \/ MountPart]_<<vars, mountVars>> /\ Fairness
=============================================================================
