------------------------------ MODULE Mounts ------------------------------
(***************************************************************************)
(* The bind mounts of a sandbox (bwrap.build_bwrap_argv, run_sandbox).    *)
(* The rules are gathered from several sources, sorted by the length of    *)
(* the path they mount at, and applied in that order by bwrap, which is    *)
(* external: each mount hides what was mounted at or below its path        *)
(* before.  Three more are applied after them, whatever their length: the  *)
(* script that wraps the command, the program, and the resolv.conf that    *)
(* leads to the gateway.                                                   *)
(*                                                                         *)
(* The fixed rules at the front of the command line only show where no     *)
(* other does, and are taken as one.  The sort looks at a destination as   *)
(* the user or the environment has spelled it, which may be longer than    *)
(* the path it stands for (/home//x), or shorter (home/x).  A rule whose   *)
(* host path does not exist is left out.  A gathered rule is named by its  *)
(* place in the list before it is sorted.                                  *)
(***************************************************************************)
EXTENDS Integers, Sequences

CONSTANTS
    Paths,          \* paths in the sandbox
    Below,          \* <<p, d>> if p is d or below d
    Length,         \* the length of each path as a string
    Extras,         \* how many characters more a destination may be spelled with
    Cwd,            \* the working directory
    LocalBin,       \* ~/.local/bin
    Binaries,       \* the program and the file that its name resolves to
    ScriptPath,     \* /opt/aleash-netsetup.sh
    ResolvPath,     \* the file that /etc/resolv.conf resolves to
    MaxBinds        \* bound on the rules gathered

ASSUME PathsAreATree ==
    /\ Below \subseteq Paths \X Paths
    /\ \A p \in Paths : <<p, p>> \in Below
    /\ \A p, d, e \in Paths : <<p, d>> \in Below /\ <<p, e>> \in Below
            => <<d, e>> \in Below \/ <<e, d>> \in Below
ASSUME LongerBelow ==
    /\ Length \in [Paths -> Nat]
    /\ \A p, d \in Paths : <<p, d>> \in Below /\ p # d => Length[d] < Length[p]
ASSUME Spellings == Extras \subseteq Int /\ 0 \in Extras
ASSUME Places == {Cwd, LocalBin, ScriptPath, ResolvPath} \cup Binaries \subseteq Paths
ASSUME BindsBound == MaxBinds \in Nat

VARIABLES
    source,     \* what the next rule comes from, or the stage after that
    content,    \* the rules gathered
    mounted,    \* the rules that bwrap has applied
    view        \* the rule through which each path is seen: 0 for a fixed one

mountVars == <<source, content, mounted, view>>

\* The rules applied last.
Script == MaxBinds + 1
Program == MaxBinds + 2
Resolv == MaxBinds + 3
LateDests(r) == IF r = Script THEN {ScriptPath}
                ELSE IF r = Program THEN Binaries ELSE {ResolvPath}

Lists == {"profile", "profile_ro", "home_dirs", "user", "service"}
Sources == {"local_bin", "cwd", "git_dir"} \cup Lists
Rule == [dest : Paths, extra : Extras, mode : {"ro", "rw"}]

MountTypeOK ==
    /\ source \in Sources \cup {"mount", "run"}
    /\ content \in Seq(Rule) /\ Len(content) <= MaxBinds
    /\ mounted \subseteq 1..Len(content)
    /\ view \in [Paths -> 0..Resolv]

MountInit ==
    /\ source = "local_bin"
    /\ content = <<>>
    /\ mounted = {}
    /\ view = [p \in Paths |-> 0]

-----------------------------------------------------------------------------
(* Gathering, in the order of the code.                                    *)

AddSpelled(from, d, x, m, next) ==
    /\ source = from /\ source' = next
    /\ Len(content) < MaxBinds
    /\ content' = Append(content, [dest |-> d, extra |-> x, mode |-> m])
    /\ UNCHANGED <<mounted, view>>

\* A destination that the code puts together itself.
Add(from, d, m, next) == AddSpelled(from, d, 0, m, next)

GoOn(from, next) ==
    /\ source = from /\ source' = next
    /\ UNCHANGED <<content, mounted, view>>

\* Read-only, if it is a directory.
AddLocalBin == Add("local_bin", LocalBin, "ro", "cwd") \/ GoOn("local_bin", "cwd")
AddCwd == Add("cwd", Cwd, "rw", "git_dir")

\* The directory of a submodule.
AddGitDir == \/ \E d \in Paths : Add("git_dir", d, "rw", "profile")
             \/ GoOn("git_dir", "profile")

AddProfileBind == \/ \E d \in Paths : Add("profile", d, "rw", "profile")
                  \/ GoOn("profile", "profile_ro")
AddProfileRo == \/ \E d \in Paths : Add("profile_ro", d, "ro", "profile_ro")
                \/ GoOn("profile_ro", "home_dirs")

\* At a path under the working directory.
AddHomeDir ==
    \/ \E d \in Paths : <<d, Cwd>> \in Below /\ Add("home_dirs", d, "rw", "home_dirs")
    \/ GoOn("home_dirs", "user")

\* From .aleash-fs-binds.json, and from the environment.
AddUserBind ==
    \/ \E d \in Paths, x \in Extras, m \in {"ro", "rw"} : AddSpelled("user", d, x, m, "user")
    \/ GoOn("user", "service")
AddServiceBind ==
    \/ \E d \in Paths, x \in Extras, m \in {"ro", "rw"} :
            AddSpelled("service", d, x, m, "service")
    \/ GoOn("service", "mount")

Gather == \/ AddLocalBin \/ AddCwd \/ AddGitDir \/ AddProfileBind \/ AddProfileRo
          \/ AddHomeDir \/ AddUserBind \/ AddServiceBind

-----------------------------------------------------------------------------
(* The command line, and what bwrap makes of it.                           *)

Dest(i) == content[i].dest
Covers(i, p) == <<p, Dest(i)>> \in Below

\* Bug for a mutant: the rules are applied as gathered.
AsGathered(i, j) == i < j

Spelled(i) == Length[Dest(i)] + content[i].extra

\* content.sort: a stable sort by the length of the destination.
Before(i, j) == Spelled(i) < Spelled(j) \/ (Spelled(i) = Spelled(j) /\ i < j)

Mount(i) ==
    /\ source = "mount"
    /\ i \in 1..Len(content) /\ i \notin mounted
    /\ \A j \in 1..Len(content) : j \in mounted \/ j = i \/ Before(i, j)
    /\ mounted' = mounted \cup {i}
    /\ view' = [p \in Paths |-> IF Covers(i, p) THEN i ELSE view[p]]
    /\ UNCHANGED <<source, content>>

\* The end of the command line.  Each name of the program that lies outside what is
\* mounted anyway is bound on its own.
Launch ==
    /\ source = "mount" /\ mounted = 1..Len(content)
    /\ source' = "run"
    /\ \E names \in SUBSET Binaries :
            view' = [p \in Paths |-> IF <<p, ResolvPath>> \in Below THEN Resolv
                                    ELSE IF \E d \in names : <<p, d>> \in Below THEN Program
                                    ELSE IF <<p, ScriptPath>> \in Below THEN Script
                                    ELSE view[p]]
    /\ UNCHANGED <<content, mounted>>

MountNext == Gather \/ Launch \/ \E i \in 1..MaxBinds : Mount(i)

MountSpec == MountInit /\ [][MountNext]_mountVars

-----------------------------------------------------------------------------
(* Properties                                                              *)

\* In the sandbox the files that are mounted last are seen at their own paths, resolv.conf
\* whatever else is mounted there, and any other path through the innermost gathered rule
\* for it, whatever order the sources name the rules in; of several rules for one path the
\* last counts, so that a service overrides the user's settings and those the profile (the
\* comment in build_bwrap_argv on why the rules are sorted).  Excepted is a rule that is
\* spelled with more extra characters than the other.
MostSpecificWins ==
    source = "run" => \A p \in Paths :
        /\ <<p, ResolvPath>> \in Below => view[p] = Resolv
        /\ view[p] \in {Script, Program, Resolv} =>
                \E d \in LateDests(view[p]) : <<p, d>> \in Below
        /\ \A i \in 1..Len(content) : Covers(i, p) /\ view[p] <= MaxBinds =>
                /\ view[p] # 0
                /\ content[view[p]].extra <= content[i].extra =>
                        /\ <<Dest(view[p]), Dest(i)>> \in Below
                        /\ Dest(view[p]) = Dest(i) => i <= view[p]
=============================================================================
