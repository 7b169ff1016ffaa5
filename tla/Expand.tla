-------------------------------- MODULE Expand --------------------------------
(***************************************************************************)
(* graph.Builder.Build up to the call of markOutdated: the ports are       *)
(* sorted, then expanded in that order into the nodes of the graph.  A     *)
(* node is named by its position in the node list.                         *)
(***************************************************************************)
EXTENDS TopoSort, Semver

CONSTANT
    Listings    \* per source repository, the lists Versions may return

VARIABLES
    pc,         \* "sort", "open", "match", "render", then the marking, or
                \* "failed" (Build returned an error)
    at,         \* position in out of the port being expanded
    todo,       \* matched: selected tags of that port not expanded yet
    match,      \* m, the tag being expanded
    tmpl,       \* position of the loop over the port's templates
    got,        \* tags: rendered for m and not owned by a newer node
    expanded,   \* expanded: build.repo -> produced tags, in order
    nodes,
    owner       \* node_by_id: reference -> node

nodesVars == << pc, at, todo, match, tmpl, got, expanded, nodes, owner >>

ASSUME ListingsAssumption ==
    /\ DOMAIN Listings = Repos \cup {NoRepo}
    /\ \A r \in DOMAIN Listings : Listings[r] \subseteq Seq(Tag)

Ref == [repo : Repos \cup {NoRepo}, tag : Tag]

NoTag == [n |-> << >>, pre |-> NoPre]

RefOf(r, t) == [repo |-> r, tag |-> t]

cur == out[at]
port == ports[cur]

(* The primary tag names the node.                                          *)
Id(n) == RefOf(ports[n.port].repo, n.tags[1])

RefsOf(n) == {RefOf(ports[n.port].repo, n.tags[i]) : i \in DOMAIN n.tags}

(* base_ref; the repository NoRepo stands for the empty reference of a node *)
(* whose source is not a container.                                         *)
BaseRef(p, t) == RefOf(IF p.kind = "container" THEN p.src ELSE NoRepo, t)

NodesInit ==
    /\ pc = "sort"
    /\ at = 1
    /\ todo = {}
    /\ match = NoTag
    /\ tmpl = 1
    /\ got = << >>
    /\ expanded = [r \in Repos |-> << >>]
    /\ nodes = << >>
    /\ owner = << >>

(* ordered, err := topoSort(ports)                                          *)
Sorted ==
    /\ pc = "sort"
    /\ verdict # "sorting"
    /\ pc' = IF verdict = "sorted" THEN "open" ELSE "failed"
    /\ UNCHANGED << at, todo, match, tmpl, got, expanded, nodes, owner >>

(* The versions of the next port - the tags its upstream port produced so   *)
(* far, or what the source lists now - and the selection among them.        *)
Open ==
    /\ pc = "open"
    /\ at <= Len(out)
    /\ \E ts \in IF Internal(ports, cur) THEN {expanded[port.src]}
                                         ELSE Listings[port.src] :
          todo' = Selected(port.sel, ts)
    /\ pc' = "match"
    /\ UNCHANGED << at, match, tmpl, got, expanded, nodes, owner >>

(* Listing the versions fails, or a strategy or template cannot be built.   *)
OpenFails ==
    /\ pc = "open"
    /\ at <= Len(out)
    /\ pc' = "failed"
    /\ UNCHANGED << at, todo, match, tmpl, got, expanded, nodes, owner >>

(* for _, m := range matched: newest first.                                 *)
NextMatch ==
    /\ pc = "match"
    /\ \E m \in todo : /\ IsNewest(todo, m)
                       /\ match' = m
                       /\ todo' = todo \ {m}
    /\ tmpl' = 1
    /\ got' = << >>
    /\ pc' = "render"
    /\ UNCHANGED << at, expanded, nodes, owner >>

NextPort ==
    /\ pc = "match"
    /\ todo = {}
    /\ at' = at + 1
    /\ pc' = "open"
    /\ UNCHANGED << todo, match, tmpl, got, expanded, nodes, owner >>

(* Mutant of Free: a tag is taken whoever carries it.                       *)
FreeAlways(t) == TRUE

Free(t) == RefOf(port.repo, t) \notin DOMAIN owner

(* A reference some node already carries is left on that node.              *)
RenderTag ==
    /\ pc = "render"
    /\ tmpl <= Len(port.tmpls)
    /\ port.tmpls[tmpl].components > 0
    /\ LET t == Render(port.tmpls[tmpl], match)
       IN  got' = IF Free(t) THEN Append(got, t) ELSE got
    /\ tmpl' = tmpl + 1
    /\ UNCHANGED << pc, at, todo, match, expanded, nodes, owner >>

RenderFails ==
    /\ pc = "render"
    /\ tmpl <= Len(port.tmpls)
    /\ port.tmpls[tmpl].components = 0
    /\ pc' = "failed"
    /\ UNCHANGED << at, todo, match, tmpl, got, expanded, nodes, owner >>

(* Mutant of SkipMatch: break for continue.                                 *)
SkipRest ==
    /\ pc = "render"
    /\ tmpl > Len(port.tmpls)
    /\ got = << >>
    /\ pc' = "match"
    /\ todo' = {}
    /\ UNCHANGED << at, match, tmpl, got, expanded, nodes, owner >>

SkipMatch ==
    /\ pc = "render"
    /\ tmpl > Len(port.tmpls)
    /\ got = << >>
    /\ pc' = "match"
    /\ UNCHANGED << at, todo, match, tmpl, got, expanded, nodes, owner >>

(* Mutant of ParentOf: the look-up comes after the node's own tags entered. *)
ParentOrSelf(base) ==
    IF \E i \in DOMAIN got : base = RefOf(port.repo, got[i]) THEN Len(nodes) + 1
    ELSE IF base \in DOMAIN owner THEN owner[base] ELSE 0

(* Mutant of ParentOf: nodes are found by their primary tag only.           *)
ParentByPrimary(base) ==
    IF base \in DOMAIN owner /\ nodes[owner[base]].tags[1] = base.tag
    THEN owner[base] ELSE 0

(* The parent is looked up before the node itself enters node_by_id.        *)
ParentOf(base) == IF base \in DOMAIN owner THEN owner[base] ELSE 0

NewNode == [port   |-> cur,
            from   |-> match,
            tags   |-> got,
            base   |-> BaseRef(port, match),
            parent |-> ParentOf(BaseRef(port, match))]

AddNode ==
    /\ pc = "render"
    /\ tmpl > Len(port.tmpls)
    /\ got # << >>
    /\ nodes' = Append(nodes, NewNode)
    /\ owner' = [r \in DOMAIN owner \cup RefsOf(NewNode) |->
                    IF r \in RefsOf(NewNode) THEN Len(nodes) + 1 ELSE owner[r]]
    /\ expanded' = [expanded EXCEPT ![port.repo] = @ \o got]
    /\ pc' = "match"
    /\ UNCHANGED << at, todo, match, tmpl, got >>

NodesNext == \/ Sorted \/ Open \/ OpenFails \/ NextMatch \/ NextPort
              \/ RenderTag \/ RenderFails \/ SkipMatch \/ AddNode

Expanded == pc = "open" /\ at > Len(out)

expandVars == << sortVars, nodesVars >>

ExpandInit == SortInit /\ NodesInit

ExpandNext == \/ SortNext /\ UNCHANGED nodesVars
              \/ NodesNext /\ UNCHANGED sortVars

ExpandSpec == ExpandInit /\ [][ExpandNext]_expandVars

(* topoSort is a loop of one goroutine: it is never descheduled for good.   *)
FairExpandSpec == ExpandSpec /\ WF_expandVars(SortNext /\ UNCHANGED nodesVars)
-----------------------------------------------------------------------------
Node == [port : Idx, from : Tag, tags : Seq(Tag), base : Ref, parent : Nat]

ExpandTypeOK ==
    /\ SortTypeOK
    /\ pc \in {"sort", "open", "match", "render", "failed"}
    /\ at \in 1..(Len(out) + 1)
    /\ pc \in {"match", "render"} => at <= Len(out)
    /\ todo \in SUBSET Tag
    /\ match \in Tag
    /\ tmpl \in Nat \ {0}
    /\ got \in Seq(Tag)
    /\ expanded \in [Repos -> Seq(Tag)]
    /\ nodes \in Seq(Node)
    /\ DOMAIN owner \subseteq Ref
    /\ owner \in [DOMAIN owner -> DOMAIN nodes]

(* No reference is carried by two nodes, and node_by_id finds for every      *)
(* reference the node that carries it: two builds never push the same tag,   *)
(* also when several ports share a build.repo or a version renders the tag   *)
(* of another one.                                                           *)
UniqueOwner ==
    /\ \A i \in DOMAIN nodes : \A r \in RefsOf(nodes[i]) :
          r \in DOMAIN owner /\ owner[r] = i
    /\ \A r \in DOMAIN owner : r \in RefsOf(nodes[owner[r]])

(* A node comes after its parent, and its parent carries its base.           *)
ParentFirst ==
    \A i \in DOMAIN nodes :
       nodes[i].parent # 0 => /\ nodes[i].parent < i
                              /\ nodes[i].base \in RefsOf(nodes[nodes[i].parent])

(* The parents of a port's nodes are all there when the port is expanded: a  *)
(* base that any node of the graph carries is the base of a child of that    *)
(* node, never mistaken for an external image.  (A port that rebuilds its    *)
(* own repository has no internal edge and is left out.)                     *)
ProducedBaseIsParent ==
    \A i \in DOMAIN nodes :
       LET p == ports[nodes[i].port]
       IN  (p.src # p.repo /\ nodes[i].base \in DOMAIN owner) =>
              nodes[i].parent = owner[nodes[i].base]

(* A tag that several versions of a port render is on the newest of them.    *)
FloatingOnNewest ==
    \A i \in DOMAIN nodes : \A k \in DOMAIN ports[nodes[i].port].tmpls :
       LET p == ports[nodes[i].port]
           r == RefOf(p.repo, Render(p.tmpls[k], nodes[i].from))
       IN  /\ r \in DOMAIN owner
           /\ LET j == owner[r]
              IN  nodes[j].port = nodes[i].port =>
                     j = i \/ GreaterThan(nodes[j].from, nodes[i].from)

(* Every version an internal port selects from what its upstream repository  *)
(* ends up with has its tags in the graph.                                   *)
Carried(p, t) == \A k \in DOMAIN p.tmpls :
                    RefOf(p.repo, Render(p.tmpls[k], t)) \in DOMAIN owner

Covered(p) == \A t \in Selected(p.sel, expanded[p.src]) : Carried(p, t)

UpstreamComplete ==
    Expanded => \A c \in Idx : Internal(ports, c) => Covered(ports[c])

(* ... which holds when no two ports build the same repository.              *)
DistinctRepos == \A i, j \in Idx : ports[i].repo = ports[j].repo => i = j

CoveredIfDistinct == DistinctRepos => UpstreamComplete
-----------------------------------------------------------------------------
(* The inductive invariant behind the properties above.                      *)
SortDone ==
    /\ pc = "sort" => at = 1 /\ nodes = << >>
    /\ pc # "sort" => verdict # "sorting"

NodeShape ==
    \A i \in DOMAIN nodes :
       /\ nodes[i].tags # << >>
       /\ nodes[i].base = BaseRef(ports[nodes[i].port], nodes[i].from)

(* Tags of the port under expansion that are still to become nodes.          *)
Pending == IF pc = "render" THEN todo \cup {match} ELSE todo

Expanding == pc \in {"match", "render"}

GotFree ==
    pc = "render" =>
       \A i \in DOMAIN got : RefOf(port.repo, got[i]) \notin DOMAIN owner

ExpandedOwned ==
    \A r \in Repos : \A k \in DOMAIN expanded[r] :
       RefOf(r, expanded[r][k]) \in DOMAIN owner

PendingOwned ==
    (Expanding /\ Internal(ports, cur)) =>
       \A t \in Pending : RefOf(port.src, t) \in DOMAIN owner

InternalBase ==
    \A i \in DOMAIN nodes :
       Internal(ports, nodes[i].port) =>
          nodes[i].base \in DOMAIN owner /\ nodes[i].parent = owner[nodes[i].base]

(* A node's port is the one under expansion or an earlier one.               *)
NodesOfPast ==
    \A i \in DOMAIN nodes : \E x \in DOMAIN out :
       /\ out[x] = nodes[i].port
       /\ x <= at
       /\ ~Expanding => x < at \/ pc = "failed"

Descending ==
    Expanding =>
       /\ \A i \in DOMAIN nodes : nodes[i].port = cur =>
             \A t \in Pending : GreaterThan(nodes[i].from, t)
       /\ pc = "render" => \A t \in todo : GreaterThan(match, t)

RenderedSoFar ==
    pc = "render" =>
       /\ tmpl <= Len(port.tmpls) + 1
       /\ \A k \in 1..(tmpl - 1) :
             LET t == Render(port.tmpls[k], match)
             IN  RefOf(port.repo, t) \in DOMAIN owner \/ \E x \in DOMAIN got : got[x] = t

ExpandInv ==
    /\ ExpandTypeOK
    /\ SortDone
    /\ NodeShape
    /\ UniqueOwner
    /\ ParentFirst
    /\ GotFree
    /\ ExpandedOwned
    /\ PendingOwned
    /\ InternalBase
    /\ NodesOfPast
    /\ Descending
    /\ RenderedSoFar
    /\ FloatingOnNewest

(* Behind CoveredIfDistinct: an expanded port has covered its upstream, which *)
(* gets no more tags, and of the port under expansion nothing is lost.       *)
CoverInv ==
    /\ pc \in {"open", "match", "render"} => verdict = "sorted"
    /\ DistinctRepos =>
          /\ \A x \in DOMAIN out :
                (x < at /\ Internal(ports, out[x])) => Covered(ports[out[x]])
          /\ (Expanding /\ Internal(ports, cur)) =>
                \A t \in Selected(port.sel, expanded[port.src]) :
                   t \in Pending \/ Carried(port, t)
=============================================================================
