------------------------------- MODULE BuildRun -------------------------------
(***************************************************************************)
(* `clade build`: a graph is obtained (module GraphBuild), the targets are *)
(* selected in it and built one after another with docker buildx, each     *)
(* pushing its tags, while others go on pushing to the same registry.      *)
(***************************************************************************)
EXTENDS GraphBuild

CONSTANTS
    Requests,       \* command lines: node arguments, --all, and whether to push
    NewDigests,     \* digests of the images this run may build: no more images
                    \* than this, and no older image has or records one of them
    OwnLabel,       \* build.repo of the ports whose digest comparator is
                    \* configured with a label key of its own
    Now             \* the time when the first target is built

VARIABLES
    bpc,        \* "graph" until the graph is there, then per target "next",
                \* "docker" and "push", in the end "done" or "failed"
    req,        \* the command line
    targets,    \* the selected nodes
    built,      \* those whose Build has returned
    label,      \* the digest label of the target being built
    tagged,     \* how many of its tags are pushed
    clock,
    made,       \* history: what was built for a node - digest, base and label
    late,       \* history: digests others pushed since the selection
    past,       \* history: per reference, the digests it has lost since then
    due         \* history: the nodes that were due when the targets were selected

runVars == << bpc, req, targets, built, label, tagged, clock, made, late, past, due >>
buildVars == << graphVars, runVars >>

NoRequest == [ids |-> {}, all |-> FALSE, push |-> FALSE]

Earlier(image) == image.digest \notin NewDigests /\ image.label \notin NewDigests

ASSUME BuildAssumption ==
    /\ Requests \subseteq [ids : SUBSET Ref, all : BOOLEAN, push : BOOLEAN]
    /\ NewDigests \subseteq Digests
    /\ OwnLabel \subseteq Repos
    /\ Now \in Nat
    /\ \A w \in Worlds :
          /\ \A r \in DOMAIN w.reg : Earlier(w.reg[r]) /\ w.reg[r].created < Now
          /\ \A r \in DOMAIN w.cached : Earlier(w.cached[r])
    /\ \A p \in Pushes : Earlier(p[2])

RunInit ==
    /\ bpc = "graph"
    /\ req = NoRequest
    /\ targets = {}
    /\ built = {}
    /\ label = NoDigest
    /\ tagged = 0
    /\ clock = Now
    /\ made = << >>
    /\ late = {}
    /\ past = << >>
    /\ due = {}

(* A run that reads the registry itself would mark exactly these nodes, as   *)
(* long as it stands still (MarkingExact in module GraphBuild).              *)
Due(i) == \E j \in Lineage(i) :
             Stale(ChainOf(nodes[j]), Held(Id(nodes[j])), Held(nodes[j].base))

NodeIds == {Id(nodes[i]) : i \in DOMAIN nodes}

(* selectBuildTargets; nothing selected is "nothing to build".              *)
Chosen(q) == {i \in DOMAIN nodes : IF q.ids = {} THEN q.all \/ outdated[i]
                                                 ELSE Id(nodes[i]) \in q.ids}

Select ==
    /\ bpc = "graph"
    /\ mark = "done"
    /\ \E q \in Requests :
          /\ q.ids \subseteq NodeIds
          /\ req' = q
          /\ targets' = Chosen(q)
    /\ due' = {i \in DOMAIN nodes : Due(i)}
    /\ bpc' = "next"
    /\ UNCHANGED << built, label, tagged, clock, made, late, past >>

(* A node id that the graph does not have ends the command.                 *)
UnknownNode ==
    /\ bpc = "graph"
    /\ mark = "done"
    /\ \E q \in Requests : ~ (q.ids \subseteq NodeIds) /\ req' = q
    /\ bpc' = "failed"
    /\ UNCHANGED << targets, built, label, tagged, clock, made, late, past, due >>

NoGraph ==
    /\ bpc = "graph"
    /\ mark = "failed" \/ pc = "failed"
    /\ bpc' = "failed"
    /\ UNCHANGED << req, targets, built, label, tagged, clock, made, late, past, due >>

(* The graph's order is kept.                                               *)
Left == targets \ built
(* Mutant of IsNext: the targets are built from the last to the first.      *)
IsLast(i) == i \in Left /\ \A j \in Left : j <= i

IsNext(i) == i \in Left /\ \A j \in Left : i <= j
target == CHOOSE i \in Left : IsNext(i)
base == nodes[target].base
HasBase == base.repo # NoRepo

(* Mutant of LookedUp: the look-up goes through the cache and the memo.     *)
LookedUpCached(r) == Reading(r)

LookedUp(r) == Held(r)

(* spec: the base is looked up in the registry itself, not in the cache; if *)
(* that fails the label is left out.                                        *)
Spec ==
    /\ bpc = "next"
    /\ Left # {}
    /\ label' \in IF HasBase THEN {LookedUp(base).digest, NoDigest} ELSE {NoDigest}
    /\ bpc' = "docker"
    /\ UNCHANGED << req, targets, built, tagged, clock, made, late, past, due >>

(* The port cannot be loaded, or its builder cannot be made.                *)
SpecFails ==
    /\ bpc = "next"
    /\ Left # {}
    /\ bpc' = "failed"
    /\ UNCHANGED << req, targets, built, label, tagged, clock, made, late, past, due >>

(* docker resolves the base once more and builds on what it finds.          *)
Unused == {d \in NewDigests : \A i \in DOMAIN made : made[i].digest # d}
Fresh == CHOOSE d \in Unused : TRUE

Docker ==
    /\ bpc = "docker"
    /\ req.push
    /\ Unused # {}
    /\ HasBase => Held(base) # Missing
    /\ made' = [i \in DOMAIN made \cup {target} |->
                   IF i = target
                   THEN [digest |-> Fresh, created |-> clock, label |-> label,
                         from |-> IF HasBase THEN Held(base).digest ELSE NoDigest]
                   ELSE made[i]]
    /\ clock' = clock + 1
    /\ tagged' = 0
    /\ bpc' = "push"
    /\ UNCHANGED << req, targets, built, label, late, past, due >>

(* --no-push, --load and --dry-run leave the registry alone.                *)
DockerOnly ==
    /\ bpc = "docker"
    /\ ~req.push
    /\ built' = built \cup {target}
    /\ bpc' = "next"
    /\ UNCHANGED << req, targets, label, tagged, clock, made, late, past, due >>

(* The command fails, or is interrupted between two tags; run returns.      *)
DockerFails ==
    /\ bpc \in {"docker", "push"}
    /\ bpc' = "failed"
    /\ UNCHANGED << req, targets, built, label, tagged, clock, made, late, past, due >>

(* The image as the port's own digest comparator will see it: the build     *)
(* writes the default label and no other.                                   *)
ImageOf(i) == [created |-> made[i].created,
               digest  |-> made[i].digest,
               label   |-> IF ports[nodes[i].port].repo \in OwnLabel
                           THEN NoDigest ELSE made[i].label]

Lost(r) == IF r \in DOMAIN past THEN past[r] ELSE {}

Put(r, image) ==
    /\ reg' = [s \in DOMAIN reg \cup {r} |-> IF s = r THEN image ELSE reg[s]]
    /\ past' = [s \in DOMAIN past \cup {r} |->
                   IF s = r THEN Lost(r) \cup {Held(r).digest} ELSE past[s]]

(* docker pushes the tags in turn.                                          *)
PushTag ==
    /\ bpc = "push"
    /\ tagged < Len(nodes[target].tags)
    /\ Put(RefOf(ports[nodes[target].port].repo, nodes[target].tags[tagged + 1]),
           ImageOf(target))
    /\ tagged' = tagged + 1
    /\ UNCHANGED << cached, moves, bpc, req, targets, built, label, clock, made, late, due >>

(* Mutant of AllPushed: the push ends with the primary tag.                 *)
PrimaryPushed == tagged >= 1

AllPushed == tagged = Len(nodes[target].tags)

PushEnds ==
    /\ bpc = "push"
    /\ AllPushed
    /\ built' = built \cup {target}
    /\ tagged' = 0
    /\ bpc' = "next"
    /\ UNCHANGED << req, targets, label, clock, made, late, past, due >>

RunEnds ==
    /\ bpc = "next"
    /\ Left = {}
    /\ bpc' = "done"
    /\ UNCHANGED << req, targets, built, label, tagged, clock, made, late, past, due >>

(* Somebody else pushes or deletes an image while the run is under way.     *)
Intrude ==
    /\ bpc \in {"next", "docker", "push"}
    /\ moves < MaxMoves
    /\ \E p \in Pushes : Put(p[1], p[2]) /\ late' = late \cup {p[2].digest}
    /\ moves' = moves + 1
    /\ UNCHANGED << cached, bpc, req, targets, built, label, tagged, clock, made, due >>

BuildRunInit == GraphInit /\ RunInit

RunStep == \/ Select \/ UnknownNode \/ NoGraph \/ Spec \/ SpecFails \/ Docker \/ DockerOnly
           \/ DockerFails \/ PushEnds \/ RunEnds

BuildRunNext ==
    \/ GraphNext /\ UNCHANGED runVars
    \/ RunStep /\ UNCHANGED graphVars
    \/ PushTag /\ UNCHANGED << expandVars, markVars >>
    \/ Intrude /\ UNCHANGED << expandVars, markVars >>

BuildRunSpec == BuildRunInit /\ [][BuildRunNext]_buildVars
-----------------------------------------------------------------------------
Made == [digest : NewDigests, created : Nat, label : Digests \cup {NoDigest},
         from : Digests \cup {NoDigest}]

BuildRunTypeOK ==
    /\ GraphTypeOK
    /\ bpc \in {"graph", "next", "docker", "push", "done", "failed"}
    /\ req \in Requests \cup {NoRequest}
    /\ targets \subseteq DOMAIN nodes
    /\ built \subseteq targets
    /\ label \in Digests \cup {NoDigest}
    /\ tagged \in Nat
    /\ clock \in Nat
    /\ made \in [DOMAIN made -> Made]
    /\ late \subseteq Digests \cup {NoDigest}
    /\ DOMAIN past \subseteq Ref
    /\ due \subseteq DOMAIN nodes
    /\ past \in [DOMAIN past -> SUBSET (Digests \cup {NoDigest})]

(* The targets are built in the order of the graph, without a gap: when the *)
(* run is cut short, what it built is a beginning of the list.              *)
InOrder ==
    /\ \A i \in built, j \in targets : j < i => j \in built
    /\ req.push => built \subseteq DOMAIN made
    /\ ~req.push => made = << >>
    /\ \A i \in DOMAIN made \ built : i \in targets /\ IsNext(i)

(* Where the run stands.                                                    *)
RunPlace ==
    /\ bpc = "graph" => targets = {} /\ made = << >>
    /\ bpc \in {"next", "docker", "push", "done"} => mark = "done"
    /\ bpc \in {"docker", "push"} => Left # {}
    /\ bpc \in {"next", "docker"} => DOMAIN made \subseteq built
    /\ bpc = "push" => target \in DOMAIN made
    /\ bpc \notin {"push", "failed"} => tagged = 0
    /\ bpc = "done" => built = targets

(* A target whose parent is a target of the same run is built on, and       *)
(* labelled with, the image this run pushed for the parent - or what others *)
(* pushed over it since - never the parent's image of before.               *)
BuiltOnRebuilt ==
    \A i \in DOMAIN made :
       LET p == nodes[i].parent
       IN  p \in targets =>
              /\ p \in built \cap DOMAIN made
              /\ made[i].from \in {made[p].digest} \cup late
              /\ made[i].label \in {made[p].digest, NoDigest} \cup late

(* The digest strategy misses no update: an image of this run that records  *)
(* the digest its base has now was built on just that image, unless the     *)
(* base was moved away and back in the meantime.                            *)
NoMissedUpdate ==
    \A i \in DOMAIN made :
       LET b == nodes[i].base
       IN  (made[i].label # NoDigest /\ made[i].label = Held(b).digest
            /\ Held(b).digest \notin Lost(b)) =>
              made[i].from = Held(b).digest

Unlabelled(i) == /\ i \in DOMAIN made
                 /\ made[i].label = NoDigest
                 /\ ChainOf(nodes[i]) # << >>
                 /\ Head(ChainOf(nodes[i])) = "digest"

(* A run that finished leaves nothing to do, and the next one that reads the *)
(* registry builds nothing: no rebuild loop.  Due are only a node whose      *)
(* digest label had to be left out and one that was due before but hidden by *)
(* the cache, each with what is built on it.                                 *)
Converges ==
    (bpc = "done" /\ moves = 0 /\ req.push /\ req.ids = {}) =>
       \A i \in DOMAIN nodes :
          Due(i) <=> \E j \in Lineage(i) : Unlabelled(j) \/ j \in due \ targets

(* A run that is cut short, or blind to something by its cache, loses no     *)
(* work: what was due when it selected its targets and it did not build is   *)
(* still due, although a parent may be up to date by now.  It takes a        *)
(* comparator for that, on the node and on what is between it and the        *)
(* rebuilt ancestor, and no image whose tags were pushed in part only.       *)
NothingLost ==
    (moves = 0 /\ tagged = 0) =>
       \A i \in due \ built :
          (\A j \in Lineage(i) : ChainOf(nodes[j]) # << >>) => Due(i)

-----------------------------------------------------------------------------
(* What the properties above rest on.  Before the selection the run has done *)
(* nothing; from then on the graph stands.                                   *)
NotBegun == targets = {} /\ made = << >> /\ past = << >> /\ due = {}

Begun == /\ bpc = "graph" => NotBegun
         /\ bpc = "failed" => NotBegun \/ mark = "done"
         /\ mark = "done" => mi = Len(nodes) + 1

(* A selection of what is outdated leaves no node behind its parent.         *)
TargetsClosed ==
    (bpc \notin {"graph", "failed"} /\ req.ids = {}) =>
       \A i \in DOMAIN nodes : nodes[i].parent \in targets => i \in targets

PushedRefs(i) ==
    {RefOf(ports[nodes[i].port].repo, nodes[i].tags[x]) :
        x \in {y \in DOMAIN nodes[i].tags : i \in built \/ y <= tagged}}

(* What is pushed is there, unless others pushed over it.                    *)
PushesShow ==
    \A i \in DOMAIN made : \A r \in PushedRefs(i) :
       r \in DOMAIN past /\ Held(r).digest \in {made[i].digest} \cup late

(* The label is the digest of the base, or of what the base was before.      *)
LabelKnown ==
    bpc = "docker" =>
       /\ label \in {NoDigest} \cup IF HasBase THEN {Held(base).digest} \cup Lost(base) ELSE {}
       /\ LET p == nodes[target].parent
          IN  p \in built \cap DOMAIN made => label \in {made[p].digest, NoDigest} \cup late

Recorded ==
    /\ Now <= clock
    /\ \A i \in DOMAIN made :
          /\ made[i].label \in {NoDigest, made[i].from} \cup Lost(nodes[i].base)
          /\ Now <= made[i].created /\ made[i].created < clock

(* What was due when the targets were selected is due until the run pushes   *)
(* to one of the images it was judged by.                                    *)
Untouched(i) == \A k \in Lineage(i) : Id(nodes[k]) \notin DOMAIN past
                                       /\ nodes[k].base \notin DOMAIN past

DueStands ==
    \A i \in DOMAIN nodes : Untouched(i) =>
       /\ i \in due => Due(i)
       /\ (bpc \notin {"graph", "failed"} /\ Due(i)) => i \in due

(* As long as nobody else pushes, an image is one of this run or one that    *)
(* was there before.                                                         *)
Undisturbed ==
    moves = 0 =>
       /\ \A r \in DOMAIN past : \E i \in DOMAIN made :
             r \in PushedRefs(i) /\ Held(r) = ImageOf(i)
       /\ \A r \in DOMAIN reg \ DOMAIN past : reg[r].created < Now /\ Earlier(reg[r])
       /\ bpc = "docker" => label \in {NoDigest} \cup IF HasBase THEN {Held(base).digest} ELSE {}

(* Ports that do not build on their own repository, and compare only what    *)
(* has a base.                                                               *)
Ordinary == \A p \in Idx : /\ ports[p].src # ports[p].repo
                           /\ ports[p].chain # << >> => ports[p].kind = "container"

(* Then no base is replaced under an image of this run.                      *)
BasesStand ==
    (moves = 0 /\ Ordinary) =>
       \A i \in DOMAIN made : nodes[i].base.repo # NoRepo =>
          LET image == Held(nodes[i].base)
          IN  /\ image # Missing
              /\ image.created < made[i].created
              /\ made[i].label \in {NoDigest, image.digest}

(* The inductive invariant.                                                  *)
BuildRunInv == /\ BuildRunTypeOK
               /\ InOrder
               /\ RunPlace
               /\ Begun
               /\ TargetsClosed
               /\ PushesShow
               /\ LabelKnown
               /\ Recorded
               /\ BuiltOnRebuilt
               /\ DueStands
               /\ Undisturbed
               /\ BasesStand
-----------------------------------------------------------------------------
(* compare/digest.go on the label a digest strategy reads: "The build step  *)
(* is responsible for writing it."                                          *)
LabelWritten ==
    \A i \in built \cap DOMAIN made :
       (made[i].label # NoDigest /\ Held(Id(nodes[i])).digest = made[i].digest) =>
          Held(Id(nodes[i])).label = made[i].label
=============================================================================
