------------------------------ MODULE GraphBuild ------------------------------
(***************************************************************************)
(* A whole run of graph.Builder.Build: the expansion of module Expand,     *)
(* then markOutdated over its nodes, while the registry goes on moving and *)
(* the cache in front of it keeps what earlier runs read.                  *)
(***************************************************************************)
EXTENDS Expand

CONSTANTS
    Digests,
    NoDigest,       \* the value of a base-digest label that is absent
    Worlds,         \* [reg, cached]: what the registry may hold when the run
                    \* starts, and what the cache answers in its place
    Pushes,         \* <<reference, image>>: pushes and deletions (Missing) by others
    MaxMoves        \* how many of them happen during one run

Image == [created : Nat, digest : Digests, label : Digests \cup {NoDigest}]

Missing == [created |-> 0, digest |-> NoDigest, label |-> NoDigest]

ASSUME RegistryAssumption ==
    /\ NoDigest \notin Digests
    /\ MaxMoves \in Nat
    /\ \A w \in Worlds :
          /\ DOMAIN w.reg \cup DOMAIN w.cached \subseteq Ref
          /\ \A r \in DOMAIN w.reg : w.reg[r] \in Image \cup {Missing}
          /\ \A r \in DOMAIN w.cached : r.repo # NoRepo /\ w.cached[r] \in Image
    /\ Pushes \subseteq Ref \X (Image \cup {Missing})

VARIABLES
    mark,       \* "idle" while expanding, "target", "base", "done" or "failed"
    mi,         \* the node markOutdated is at
    stats,      \* stats: what stat has read, Missing for ErrNotExist
    outdated,   \* node.Outdated
    reg,        \* what the registry holds
    cached,     \* the fresh entries of the cache, none of a missing image; one
                \* that expires before it is asked for is not among them
    moves       \* pushes by others so far

markVars == << mark, mi, stats, outdated >>
envVars == << reg, cached, moves >>
graphVars == << expandVars, markVars, envVars >>

node == nodes[mi]
chain == ports[node.port].chain

Held(r) == IF r \in DOMAIN reg THEN reg[r] ELSE Missing

(* Stat of the cached registry: within the ttl the entry, whatever the      *)
(* registry holds by now.                                                   *)
Seen(r) == IF r \in DOMAIN cached THEN cached[r] ELSE Held(r)

(* stat: a reference is asked for once per run; a missing image is          *)
(* remembered too.                                                          *)
Reading(r) == IF r \in DOMAIN stats THEN stats[r] ELSE Seen(r)

(* Mutant of Remember: an image is asked for anew each time.                *)
RememberLast(r) == [s \in DOMAIN stats \cup {r} |-> IF s = r THEN Seen(r) ELSE stats[s]]

Remember(r) == [s \in DOMAIN stats \cup {r} |-> IF s = r THEN Reading(r) ELSE stats[s]]

(* created.IsOutdated and digest.IsOutdated; an absent label differs.       *)
CreatedSays(base, target) == target.created < base.created
DigestSays(base, target) == target.label # base.digest

Says(c, base, target) == IF c = "created" THEN CreatedSays(base, target)
                                          ELSE DigestSays(base, target)

(* Chain.IsOutdated: OfImage gives every capability a comparator asks for,  *)
(* so none is incomparable and the first one decides.                       *)
ChainSays(ch, base, target) == Says(Head(ch), base, target)

(* Mutant of AnyParentOutdated: a missing parent counts, a stale one not.   *)
AnyParentMissing == node.parent # 0 /\ Reading(Id(nodes[node.parent])) = Missing

AnyParentOutdated == node.parent # 0 /\ outdated[node.parent]

(* Mutant of NeedsBuild: a missing image is passed on to the comparators.   *)
ParentNeedsBuild == AnyParentOutdated

NeedsBuild == AnyParentOutdated \/ Reading(Id(node)) = Missing

(* Mutant of BaseSays: nothing can be newer than a base that is gone.       *)
BaseSaysLenient(base) == base # Missing /\ ChainSays(chain, base, Reading(Id(node)))

BaseSays(base) == base = Missing \/ ChainSays(chain, base, Reading(Id(node)))

(* The registry itself is asked: nothing was read or cached before.         *)
Asked(r) == r \notin DOMAIN stats \cup DOMAIN cached

Decide(flag) == /\ outdated' = [outdated EXCEPT ![mi] = flag]
                /\ mi' = mi + 1
                /\ mark' = "target"

MarkInit == /\ mark = "idle"
            /\ mi = 1
            /\ stats = << >>
            /\ outdated = << >>

BeginMark == /\ mark = "idle"
             /\ Expanded
             /\ mark' = "target"
             /\ outdated' = [i \in DOMAIN nodes |-> FALSE]
             /\ UNCHANGED << mi, stats >>

StatTarget ==
    /\ mark = "target"
    /\ mi <= Len(nodes)
    /\ stats' = Remember(Id(node))
    /\ IF NeedsBuild
       THEN Decide(TRUE)
       ELSE IF chain = << >>
            THEN Decide(FALSE)
            ELSE mark' = "base" /\ UNCHANGED << mi, outdated >>

(* Only a node with a base can be compared: stat("") is an error.           *)
StatBase ==
    /\ mark = "base"
    /\ node.base.repo # NoRepo
    /\ stats' = Remember(node.base)
    /\ Decide(BaseSays(Reading(node.base)))

(* Asking the registry fails.                                               *)
StatFails ==
    /\ \/ mark = "target" /\ mi <= Len(nodes) /\ Asked(Id(node))
       \/ mark = "base" /\ Asked(node.base)
    /\ mark' = "failed"
    /\ UNCHANGED << mi, stats, outdated >>

EndMark == /\ mark = "target"
           /\ mi > Len(nodes)
           /\ mark' = "done"
           /\ UNCHANGED << mi, stats, outdated >>

MarkNext == BeginMark \/ StatTarget \/ StatBase \/ StatFails \/ EndMark

(* Somebody else pushes or deletes an image while the nodes are marked.     *)
Move == /\ mark \in {"target", "base"}
        /\ moves < MaxMoves
        /\ \E p \in Pushes :
              reg' = [r \in DOMAIN reg \cup {p[1]} |-> IF r = p[1] THEN p[2] ELSE reg[r]]
        /\ moves' = moves + 1
        /\ UNCHANGED cached

GraphInit == /\ ExpandInit
             /\ MarkInit
             /\ \E w \in Worlds : reg = w.reg /\ cached = w.cached
             /\ moves = 0

Build == \/ ExpandNext /\ UNCHANGED markVars
         \/ MarkNext /\ UNCHANGED expandVars

GraphNext == \/ Build /\ UNCHANGED envVars
             \/ Move /\ UNCHANGED << expandVars, markVars >>

GraphSpec == GraphInit /\ [][GraphNext]_graphVars
-----------------------------------------------------------------------------
GraphTypeOK ==
    /\ ExpandTypeOK
    /\ mark \in {"idle", "target", "base", "done", "failed"}
    /\ mi \in 1..(Len(nodes) + 1)
    /\ DOMAIN stats \subseteq Ref
    /\ \A r \in DOMAIN stats : stats[r] \in Image \cup {Missing}
    /\ mark # "idle" => Expanded /\ outdated \in [DOMAIN nodes -> BOOLEAN]
    /\ DOMAIN reg \subseteq Ref
    /\ \A r \in DOMAIN reg : reg[r] \in Image \cup {Missing}
    /\ DOMAIN cached \subseteq Ref
    /\ \A r \in DOMAIN cached : cached[r] \in Image
    /\ moves \in 0..MaxMoves

Marked == IF mark = "idle" THEN {} ELSE 1..(mi - 1)

(* A rebuilt base invalidates what is built on it: no node is reported up to *)
(* date under a parent that is going to be rebuilt, however the registry     *)
(* moves between the two readings.                                           *)
OutdatedClosed ==
    \A i \in Marked : (nodes[i].parent # 0 /\ outdated[nodes[i].parent]) => outdated[i]

Stale(ch, target, base) ==
    \/ target = Missing
    \/ ch # << >> /\ (base = Missing \/ ChainSays(ch, base, target))

ChainOf(n) == ports[n.port].chain

(* A node is reported up to date only on what this run read of its own       *)
(* image and its base, and each of the two was read: a verdict never mixes   *)
(* two readings of one image, nor skips the reading of one.                  *)
OkWasRead ==
    \A i \in Marked : ~outdated[i] =>
       /\ Id(nodes[i]) \in DOMAIN stats
       /\ ChainOf(nodes[i]) # << >> => nodes[i].base \in DOMAIN stats
       /\ ~Stale(ChainOf(nodes[i]), stats[Id(nodes[i])], stats[nodes[i].base])

Lineage(i) ==
    LET up[j \in DOMAIN nodes] ==
            IF nodes[j].parent \in 1..(j - 1) THEN {j} \cup up[nodes[j].parent] ELSE {j}
    IN  up[i]

(* What docs/architecture.md calls outdated: the primary tag is missing, the *)
(* chain calls it stale, or an ancestor is outdated.  While the registry     *)
(* stands still the marking is exactly that, of the images as the cache and  *)
(* the registry behind it show them.                                         *)
MarkingExact ==
    (mark = "done" /\ moves = 0) =>
       \A i \in DOMAIN nodes :
          outdated[i] <=>
             \E j \in Lineage(i) :
                Stale(ChainOf(nodes[j]), Seen(Id(nodes[j])), Seen(nodes[j].base))

(* One run judges all nodes by one reading of each image: a reading is never *)
(* replaced, whatever is pushed meanwhile.                                   *)
OneReading ==
    [][\A r \in DOMAIN stats : r \in DOMAIN stats' /\ stats'[r] = stats[r]]_graphVars
-----------------------------------------------------------------------------
(* Where the loop of markOutdated stands: it starts at the first node, and a *)
(* base is only asked for when nothing decided before.                       *)
MarkPlace ==
    /\ mark = "idle" => mi = 1
    /\ mark = "base" => /\ mi <= Len(nodes)
                        /\ Id(node) \in DOMAIN stats
                        /\ stats[Id(node)] # Missing
                        /\ chain # << >>
                        /\ ~AnyParentOutdated

(* The inductive invariant of the marking.                                   *)
GraphInv ==
    /\ GraphTypeOK
    /\ MarkPlace
    /\ OutdatedClosed
    /\ OkWasRead
=============================================================================
