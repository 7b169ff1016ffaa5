-------------------------------- MODULE Ports --------------------------------
(***************************************************************************)
(* The ports a run of clade works on (package port) and the edges between  *)
(* them that graph.Build sees.  A port is a record; only the fields that   *)
(* decide control in package graph are kept:                               *)
(*   kind   source.kind                                                    *)
(*   src    source.repo (NoRepo when the port names none)                  *)
(*   repo   build.repo                                                     *)
(*   sel    select, decoded as the semver parameters                       *)
(*   tmpls  build.tags, each the number of version components it renders   *)
(*   chain  the comparators of the outdated chain, in order                *)
(***************************************************************************)
EXTENDS Naturals, Sequences

CONSTANTS
    Repos,      \* repository names, upstream and build
    NoRepo,     \* the empty source.repo of a port without a registry source
    Pres,       \* semver pre-releases, NoPre for a plain release
    NoPre,
    Configs     \* the port lists LoadAll may return, sorted by directory

Kinds == {"container", "http"}

(* A template with k in 1..3 components renders Major, Major.Minor or       *)
(* Major.Minor.Patch, followed by the suffix pre; components = 0 stands for *)
(* a template whose execution fails (a field the version does not have).    *)
Template == [components : 0..3, pre : Pres]

Selector == [lastMajor : Nat, lastMinor : Nat, pre : Pres]

Comparators == {"created", "digest"}

Port == [kind : Kinds, src : Repos \cup {NoRepo}, repo : Repos,
         sel : Selector, tmpls : Seq(Template), chain : Seq(Comparators)]

(* Port.Validate: what a port must hold before LoadAll returns it.          *)
Valid(p) == /\ p.kind = "container" => p.src # NoRepo
            /\ p.tmpls # << >>

ASSUME PortsAssumption ==
    /\ NoRepo \notin Repos
    /\ NoPre \in Pres
    /\ \A c \in Configs : /\ c \in Seq(Port)
                          /\ \A i \in DOMAIN c : Valid(c[i])

(* by_repo, filled in list order: of the ports that share a build.repo the  *)
(* last one is the repository's producer.                                   *)
Produces(ps, u, r) ==
    /\ u \in DOMAIN ps
    /\ ps[u].repo = r
    /\ \A k \in DOMAIN ps : ps[k].repo = r => k <= u

(* up := by_repo[p.Source.Repo], up # p.  A port has at most one upstream.  *)
Feeds(ps, u, c) ==
    /\ c \in DOMAIN ps
    /\ u # c
    /\ Produces(ps, u, ps[c].src)

Fed(ps, c) == \E u \in DOMAIN ps : Feeds(ps, u, c)

(* An internal edge of the expansion also needs a container source.         *)
Internal(ps, c) == ps[c].kind = "container" /\ Fed(ps, c)
=============================================================================
