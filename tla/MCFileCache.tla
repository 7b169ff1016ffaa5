----------------------------- MODULE MCFileCache -----------------------------
(* Two processes after the image metadata of one repository, over an empty   *)
(* directory or one with an entry of an earlier run, with or without its key *)
(* - and the `cache` commands over the entries of two repositories, one of   *)
(* them on a port of the host that the other is named like.                  *)
EXTENDS FileCache, TLC

MCRepos == {"a", "a:1"}

K(kind, repo) == [kind |-> kind, repo |-> repo]
Left(keyed, exp) == [keyed |-> keyed, val |-> "v1", exp |-> exp]

OneKey == {K("stat", "a")}
OneFile == [OneKey -> {None, Left(FALSE, 3), Left(TRUE, 2)}]
(* Which process is which makes no difference to anything that is checked.   *)
Alike == Permutations(Procs)

AnyRemote == [OneKey -> Vals \cup {Absent}]

RmKeys == {K("tags", "a"), K("stat", "a"), K("stat", "a:1")}
RmFiles == {[k \in RmKeys |-> CASE k = K("stat", "a") -> f
                               [] k = K("tags", "a") -> h
                               [] OTHER -> Left(TRUE, 3)] :
               f \in {Left(FALSE, 3), Left(TRUE, 1)},
               h \in {None, Left(TRUE, 1), Left(TRUE, 3)}}
AllThere == {[k \in RmKeys |-> "v1"]}
MCHosted == {<< "a", "a:1" >>}

Cmd(op, repos) == [op |-> op, repos |-> repos]
MCCommands == {Cmd("ls", {}), Cmd("ls", {"a"}), Cmd("rm", {"a"}), Cmd("rm", {"a:1"}),
               Cmd("rm", {"a", "a:1"}), Cmd("all", {})}
Either == {K("stat", "a"), K("tags", "a")}
=============================================================================
