-------------------------------- MODULE Semver --------------------------------
(***************************************************************************)
(* Version tags and the semver selection of package tag.  A tag is the     *)
(* list of its numeric components and its pre-release; a tag without       *)
(* components ("latest", a word) is not a version.  What the selector      *)
(* returns is given here as a set; module SemverSelect is the loop that    *)
(* computes it.                                                            *)
(***************************************************************************)
EXTENDS Ports, FiniteSets

Tag == [n : Seq(Nat), pre : Pres]

IsVersion(t) == t.n # << >>

(* semver.NewVersion is lenient: a component that is not written is 0, so   *)
(* "1" is version 1.0.0 and "1.22" is version 1.22.0.                       *)
Component(t, i) == IF i \in DOMAIN t.n THEN t.n[i] ELSE 0
Major(t) == Component(t, 1)
Minor(t) == Component(t, 2)
Patch(t) == Component(t, 3)

SameLine(a, b) == Major(a) = Major(b) /\ Minor(a) = Minor(b)

(* GreaterThan; the pre-releases of two candidates are equal.               *)
GreaterThan(a, b) ==
    \/ Major(a) > Major(b)
    \/ Major(a) = Major(b) /\ Minor(a) > Minor(b)
    \/ SameLine(a, b) /\ Patch(a) > Patch(b)

Candidate(sel, t) == IsVersion(t) /\ t.pre = sel.pre

Candidates(sel, tags) == {i \in DOMAIN tags : Candidate(sel, tags[i])}

(* The tag that stands for its (major, minor) line: the newest patch, and of *)
(* two spellings of one version the one listed first.                       *)
IsWinner(sel, tags, i) ==
    /\ i \in Candidates(sel, tags)
    /\ \A j \in Candidates(sel, tags) :
          SameLine(tags[j], tags[i]) =>
             \/ Patch(tags[j]) < Patch(tags[i])
             \/ Patch(tags[j]) = Patch(tags[i]) /\ i <= j

Winners(sel, tags) ==
    {tags[i] : i \in {j \in DOMAIN tags : IsWinner(sel, tags, j)}}

(* majors[:lastMajor] of the sorted majors, and group[:lastMinor] of the    *)
(* lines of each; a limit of 0 keeps all.                                   *)
MajorKept(sel, lines, m) ==
    \/ sel.lastMajor = 0
    \/ Cardinality({k \in {Major(l) : l \in lines} : k > m}) < sel.lastMajor

MinorKept(sel, lines, t) ==
    \/ sel.lastMinor = 0
    \/ Cardinality({l \in lines : Major(l) = Major(t) /\ Minor(l) > Minor(t)})
          < sel.lastMinor

Selected(sel, tags) ==
    LET lines == Winners(sel, tags)
    IN  {t \in lines : MajorKept(sel, lines, Major(t)) /\ MinorKept(sel, lines, t)}

(* Mutant of IsNewest: the versions are met in no particular order.         *)
IsAny(T, t) == t \in T

(* The order in which Select returns them.                                  *)
IsNewest(T, t) == t \in T /\ \A u \in T : u = t \/ GreaterThan(t, u)

(* Executing a build tag template with a version.                           *)
Render(tmpl, t) ==
    [n |-> [i \in 1..tmpl.components |-> Component(t, i)], pre |-> tmpl.pre]
=============================================================================
