----------------------------- MODULE SemverSelect -----------------------------
(***************************************************************************)
(* semverSelector.Select, loop by loop: the tags are collapsed to one per  *)
(* (major, minor) line, then the lines are taken newest first until the    *)
(* limits on majors and on minors per major are reached.                   *)
(***************************************************************************)
EXTENDS Semver

CONSTANTS
    Listings,   \* the tag lists a registry may return
    Selectors   \* the select parameters of the ports

VARIABLES
    tags,       \* the argument of Select
    sel,        \* the selector
    pos,        \* position of the loop over tags
    lines,      \* lines: the tag kept for each line seen so far
    todo,       \* lines the sorted loops have not passed yet
    majors,     \* major lines entered so far
    out,
    done

vars == << tags, sel, pos, lines, todo, majors, out, done >>

ASSUME SelectAssumption == /\ Listings \subseteq Seq(Tag)
                           /\ Selectors \subseteq Selector

Init == /\ tags \in Listings
        /\ sel \in Selectors
        /\ pos = 1
        /\ lines = {}
        /\ todo = {}
        /\ majors = {}
        /\ out = << >>
        /\ done = FALSE

(* Mutant of Replaces: the last of two spellings of a version is kept.      *)
ReplacesEqual(t) == /\ Candidate(sel, t)
                    /\ \A l \in lines : SameLine(l, t) => ~GreaterThan(l, t)

(* A tag that is no version or has another pre-release is passed over; it   *)
(* enters lines when its line is new, or replaces an older one there.       *)
Replaces(t) == /\ Candidate(sel, t)
               /\ \A l \in lines : SameLine(l, t) => GreaterThan(t, l)

Collapse ==
    /\ pos <= Len(tags)
    /\ lines' = IF Replaces(tags[pos])
                THEN {l \in lines : ~SameLine(l, tags[pos])} \cup {tags[pos]}
                ELSE lines
    /\ pos' = pos + 1
    /\ todo' = lines'
    /\ UNCHANGED << tags, sel, majors, out, done >>

MajorFull(t) == /\ sel.lastMajor > 0
                /\ Cardinality(majors \cup {Major(t)}) > sel.lastMajor

(* Mutant of MinorFull: one minor line too many.                            *)
MinorOver(t) ==
    /\ sel.lastMinor > 0
    /\ Cardinality({i \in DOMAIN out : Major(out[i]) = Major(t)}) > sel.lastMinor

MinorFull(t) ==
    /\ sel.lastMinor > 0
    /\ Cardinality({i \in DOMAIN out : Major(out[i]) = Major(t)}) = sel.lastMinor

(* The sorted loops meet the lines from the newest to the oldest; a line    *)
(* beyond a limit was cut off by the slice of its list.                     *)
Take == /\ pos > Len(tags)
        /\ \E t \in todo :
             /\ IsNewest(todo, t)
             /\ todo' = todo \ {t}
             /\ IF MajorFull(t)
                THEN UNCHANGED << majors, out >>
                ELSE /\ majors' = majors \cup {Major(t)}
                     /\ out' = IF MinorFull(t) THEN out ELSE Append(out, t)
        /\ UNCHANGED << tags, sel, pos, lines, done >>

Return == /\ pos > Len(tags)
          /\ todo = {}
          /\ ~done
          /\ done' = TRUE
          /\ UNCHANGED << tags, sel, pos, lines, todo, majors, out >>

Next == Collapse \/ Take \/ Return

Spec == Init /\ [][Next]_vars

-----------------------------------------------------------------------------
Seen == SubSeq(tags, 1, pos - 1)

TypeOK == /\ tags \in Listings
          /\ sel \in Selectors
          /\ pos \in 1..(Len(tags) + 1)
          /\ lines \in SUBSET Tag
          /\ todo \in SUBSET Tag
          /\ majors \in SUBSET Nat
          /\ out \in Seq(Tag)
          /\ done \in BOOLEAN

(* After any number of tags, lines holds for every (major, minor) line seen  *)
(* so far exactly its winner: the map never keeps an older patch, loses a    *)
(* line, or lets a later spelling of the same version displace the first.    *)
LinesAreWinners == lines = Winners(sel, Seen)

(* No version seen so far is newer than the line kept for it.                *)
LinesCover ==
    \A i \in Candidates(sel, Seen) :
       \E l \in lines : SameLine(l, tags[i]) /\ Patch(tags[i]) <= Patch(l)

(* Nothing is taken before all tags were met; what is still to be met then   *)
(* is older than what is returned, and the result never holds more majors    *)
(* than were entered.                                                        *)
Descends == /\ pos <= Len(tags) => out = << >>
            /\ \A i \in DOMAIN out, t \in todo : GreaterThan(out[i], t)
            /\ {Major(out[i]) : i \in DOMAIN out} \subseteq majors

LinesInv == TypeOK /\ LinesAreWinners /\ LinesCover /\ Descends

-----------------------------------------------------------------------------
(* The lines the sorted loops have passed, what of one major line should be  *)
(* returned as far as majors are concerned, and what is.                     *)
Passed == lines \ todo
Entered(m) == {l \in Passed : Major(l) = m /\ MajorKept(sel, lines, m)}
Given(m) == {k \in DOMAIN out : Major(out[k]) = m}

Sorted == /\ IsFiniteSet(lines)
          /\ todo \subseteq lines
          /\ \A l \in Passed, u \in todo : GreaterThan(l, u)

Phases == /\ pos <= Len(tags) => todo = lines /\ majors = {}
          /\ done => pos > Len(tags) /\ todo = {}

(* The majors entered are those that stay, and none was turned away before   *)
(* the limit was reached.                                                    *)
MajorsExact ==
    /\ majors = {Major(l) : l \in {p \in Passed : MajorKept(sel, lines, Major(p))}}
    /\ \/ majors = {Major(l) : l \in Passed}
       \/ sel.lastMajor > 0 /\ Cardinality(majors) >= sel.lastMajor

(* Of each major that stays the lines passed are returned, until there are   *)
(* as many as the limit allows.                                              *)
MinorsExact ==
    \A m \in {Major(l) : l \in lines} :
       \/ {out[k] : k \in Given(m)} = Entered(m)
       \/ sel.lastMinor > 0 /\ Cardinality(Given(m)) = sel.lastMinor

WithinLimit ==
    sel.lastMinor > 0 =>
       \A m \in {Major(l) : l \in lines} : Cardinality(Given(m)) <= sel.lastMinor

TakenSoFar ==
    {out[k] : k \in DOMAIN out} =
       {l \in Passed : MajorKept(sel, lines, Major(l)) /\ MinorKept(sel, lines, l)}

TakeInv == Sorted /\ Phases /\ MajorsExact /\ MinorsExact /\ WithinLimit /\ TakenSoFar

(* Both truncations, at any point of the loops: what is returned so far is   *)
(* what should be returned of the lines passed.                              *)
SelectInv == LinesInv /\ TakeInv

(* The result is exactly the set described in docs/port.md: the newest patch *)
(* of each kept minor line of each kept major line, whatever the order of    *)
(* the listing.  A slip in one of the two truncations shows here.            *)
SelectionExact ==
    done => {out[i] : i \in DOMAIN out} = Selected(sel, tags)

(* graph.Build gives a floating tag to the first version that renders it and *)
(* calls that the newest: the result must strictly descend.                  *)
NewestFirst == \A i, j \in DOMAIN out : i < j => GreaterThan(out[i], out[j])
=============================================================================
