------------------------------ MODULE GraphProofs ------------------------------
(***************************************************************************)
(* The marking, for all ports, listings and registries, and however the    *)
(* registry moves during the run.                                          *)
(***************************************************************************)
EXTENDS GraphBuild, ExpandProofs

(* Once the nodes are all there the expansion is over.                       *)
LEMMA ExpandedStops ==
    ASSUME ExpandInv, SortInv, Expanded, [ExpandNext]_expandVars
    PROVE  UNCHANGED expandVars
  <1>1. pc = "open" /\ verdict # "sorting" /\ at > Len(out)
    BY DEF Expanded, ExpandInv, SortDone
  <1>2. ~(at <= Len(out))
    BY <1>1 DEF ExpandInv, ExpandTypeOK, SortTypeOK
  <1>3. ~NodesNext
    BY <1>1, <1>2 DEF NodesNext, Sorted, Open, OpenFails, NextMatch, NextPort,
                      RenderTag, Free, RenderFails, SkipMatch, AddNode
  <1>4. ~SortNext
    <2>1. ~Seed
      <3>1. ASSUME Seed PROVE verdict = "sorting"
        <4>1. next <= N /\ N \in Nat
          BY <3>1, Positions DEF Seed, SortInv, SortTypeOK
        <4>2. QED
          BY <4>1 DEF SortInv, SortTypeOK, Phases
      <3>2. QED
        BY <1>1, <3>1
    <2>2. ASSUME NEW c \in Idx, Visit(c) PROVE verdict = "sorting"
      BY <2>2 DEF Visit, SortInv, SortTypeOK, Phases
    <2>3. QED
      BY <1>1, <2>1, <2>2 DEF SortNext, Pop, Finish
  <1>5. QED
    BY <1>3, <1>4 DEF ExpandNext

(* A node's primary reference and its base are references.                   *)
LEMMA NodeRefs ==
    ASSUME ExpandInv, NEW i \in DOMAIN nodes
    PROVE  /\ nodes[i] \in Node /\ nodes[i].port \in Idx
           /\ Id(nodes[i]) \in Ref /\ nodes[i].base \in Ref
           /\ nodes[i].parent \in Nat
           /\ nodes[i].parent # 0 => nodes[i].parent \in DOMAIN nodes /\ nodes[i].parent < i
  <1>1. ports \in Configs /\ nodes \in Seq(Node)
    BY DEF ExpandInv, ExpandTypeOK, SortTypeOK
  <1>2. nodes[i] \in Node
    BY <1>1
  <1>3. /\ nodes[i].port \in Idx /\ nodes[i].tags \in Seq(Tag) /\ nodes[i].base \in Ref
        /\ nodes[i].parent \in Nat
    BY <1>2 DEF Node
  <1>4. nodes[i].tags[1] \in Tag
    BY <1>3 DEF ExpandInv, NodeShape
  <1>5. ports[nodes[i].port].repo \in Repos
    BY <1>1, <1>3, PortTypes
  <1>6. Id(nodes[i]) \in Ref
    BY <1>4, <1>5 DEF Id, RefOf, Ref
  <1>7. nodes[i].parent # 0 => nodes[i].parent < i
    BY DEF ExpandInv, ParentFirst
  <1>8. nodes[i].parent # 0 => nodes[i].parent \in DOMAIN nodes
    BY <1>1, <1>3, <1>7
  <1>9. QED
    BY <1>2, <1>3, <1>6, <1>7, <1>8

(* Asking for a reference keeps what was read and adds what is held now.     *)
LEMMA Remembered ==
    ASSUME GraphTypeOK, NEW r \in Ref, stats' = Remember(r)
    PROVE  /\ DOMAIN stats' = DOMAIN stats \cup {r}
           /\ \A s \in DOMAIN stats : s \in DOMAIN stats' /\ stats'[s] = stats[s]
           /\ stats'[r] = Reading(r)
           /\ Reading(r) \in Image \cup {Missing}
           /\ DOMAIN stats' \subseteq Ref
           /\ \A s \in DOMAIN stats' : stats'[s] \in Image \cup {Missing}
  <1>1. Reading(r) \in Image \cup {Missing}
    BY DEF Reading, Seen, Held, GraphTypeOK
  <1>2. /\ DOMAIN stats' = DOMAIN stats \cup {r}
        /\ \A s \in DOMAIN stats : s # r => stats'[s] = stats[s]
        /\ stats'[r] = Reading(r)
    BY DEF Remember
  <1>3. \A s \in DOMAIN stats : stats'[s] = stats[s]
    BY <1>2 DEF Reading
  <1>4. QED
    BY <1>1, <1>2, <1>3 DEF GraphTypeOK

(* One verdict is written, at the node the loop is at.                       *)
LEMMA Decided ==
    ASSUME GraphTypeOK, mark # "idle", mi \in DOMAIN nodes, NEW flag \in BOOLEAN, Decide(flag)
    PROVE  /\ outdated' \in [DOMAIN nodes -> BOOLEAN]
           /\ outdated'[mi] = flag
           /\ \A j \in DOMAIN nodes : j # mi => outdated'[j] = outdated[j]
           /\ mi' = mi + 1 /\ mark' = "target"
  <1>1. outdated \in [DOMAIN nodes -> BOOLEAN]
    BY DEF GraphTypeOK
  <1>2. outdated' = [outdated EXCEPT ![mi] = flag] /\ mi' = mi + 1 /\ mark' = "target"
    BY DEF Decide
  <1>3. QED
    BY <1>1, <1>2
-----------------------------------------------------------------------------
LEMMA GraphInvInit == GraphInit => GraphInv
  <1> SUFFICES ASSUME GraphInit PROVE GraphInv
    OBVIOUS
  <1>1. ExpandTypeOK
    BY ExpandInvInit DEF GraphInit, ExpandInv
  <1>2. nodes = << >> /\ mark = "idle" /\ mi = 1 /\ stats = << >> /\ moves = 0
        /\ \E w \in Worlds : reg = w.reg /\ cached = w.cached
    BY DEF GraphInit, ExpandInit, NodesInit, MarkInit
  <1>3. GraphTypeOK
    BY <1>1, <1>2, RegistryAssumption DEF GraphTypeOK
  <1>4. QED
    BY <1>2, <1>3 DEF GraphInv, MarkPlace, OutdatedClosed, OkWasRead, Marked

(* What is known of the nodes judged so far survives any step that changes   *)
(* neither them nor their verdicts and forgets no reading.                   *)
LEMMA JudgedStable ==
    ASSUME OutdatedClosed, OkWasRead, ExpandInv, UNCHANGED << nodes, ports >>,
           Marked \subseteq DOMAIN nodes,
           \A s \in DOMAIN stats : s \in DOMAIN stats' /\ stats'[s] = stats[s],
           \A i \in Marked : outdated'[i] = outdated[i]
    PROVE  /\ \A i \in Marked : (nodes[i].parent # 0 /\ nodes[i].parent \in Marked
                                  /\ outdated'[nodes[i].parent]) => outdated'[i]
           /\ \A i \in Marked : ~outdated'[i] =>
                 /\ Id(nodes[i]) \in DOMAIN stats'
                 /\ ChainOf(nodes[i]) # << >> => nodes[i].base \in DOMAIN stats'
                 /\ ~Stale(ChainOf(nodes[i]), stats'[Id(nodes[i])], stats'[nodes[i].base])
  <1>1. \A i \in Marked : (nodes[i].parent # 0 /\ nodes[i].parent \in Marked
                            /\ outdated'[nodes[i].parent]) => outdated'[i]
    BY DEF OutdatedClosed
  <1>2. ASSUME NEW i \in Marked, ~outdated'[i]
        PROVE  /\ Id(nodes[i]) \in DOMAIN stats'
               /\ ChainOf(nodes[i]) # << >> => nodes[i].base \in DOMAIN stats'
               /\ ~Stale(ChainOf(nodes[i]), stats'[Id(nodes[i])], stats'[nodes[i].base])
    <2>1. /\ Id(nodes[i]) \in DOMAIN stats
          /\ ChainOf(nodes[i]) # << >> => nodes[i].base \in DOMAIN stats
          /\ ~Stale(ChainOf(nodes[i]), stats[Id(nodes[i])], stats[nodes[i].base])
      BY <1>2 DEF OkWasRead
    <2>2. CASE ChainOf(nodes[i]) = << >>
      BY <2>1, <2>2 DEF Stale
    <2>3. CASE ChainOf(nodes[i]) # << >>
      BY <2>1, <2>3
    <2>4. QED
      BY <2>2, <2>3
  <1>3. QED
    BY <1>1, <1>2
-----------------------------------------------------------------------------
(* One lemma per step of the loop.                                           *)
MarkingOnly == UNCHANGED << expandVars, envVars >>

LEMMA KeptTypes ==
    ASSUME ExpandTypeOK, MarkingOnly
    PROVE  /\ ExpandTypeOK'
           /\ UNCHANGED << ports, nodes, pc, at, out, reg, cached, moves >>
           /\ Expanded' = Expanded
  <1>1. UNCHANGED << ports, indeg, next, queue, kids, out, verdict, pc, at, todo, match,
                     tmpl, got, expanded, nodes, owner, reg, cached, moves >>
    BY DEF MarkingOnly, expandVars, sortVars, nodesVars, envVars
  <1>2. ExpandTypeOK'
    BY <1>1 DEF ExpandTypeOK, SortTypeOK, Node, Idx, N
  <1>3. QED
    BY <1>1, <1>2 DEF Expanded

(* A verdict that is due: reported outdated, or read and found fresh.        *)
LEMMA VerdictKept ==
    ASSUME ExpandInv, GraphInv, MarkingOnly, mark \in {"target", "base"},
           mi \in DOMAIN nodes, NEW flag \in BOOLEAN, Decide(flag),
           DOMAIN stats' \subseteq Ref,
           \A s \in DOMAIN stats' : stats'[s] \in Image \cup {Missing},
           \A s \in DOMAIN stats : s \in DOMAIN stats' /\ stats'[s] = stats[s],
           AnyParentOutdated => flag,
           ~flag => /\ Id(node) \in DOMAIN stats'
                    /\ chain # << >> => node.base \in DOMAIN stats'
                    /\ ~Stale(chain, stats'[Id(node)], stats'[node.base])
    PROVE  GraphInv'
  <1>1. /\ ExpandTypeOK' /\ UNCHANGED << ports, nodes, pc, at, out, reg, cached, moves >>
        /\ Expanded' = Expanded
    BY KeptTypes DEF ExpandInv
  <1>2. /\ outdated' \in [DOMAIN nodes -> BOOLEAN]
        /\ outdated'[mi] = flag
        /\ \A j \in DOMAIN nodes : j # mi => outdated'[j] = outdated[j]
        /\ mi' = mi + 1 /\ mark' = "target"
    BY Decided DEF GraphInv
  <1>3. nodes \in Seq(Node) /\ DOMAIN nodes = 1..Len(nodes) /\ Len(nodes) \in Nat /\ mi \in Nat \ {0}
    BY DEF ExpandInv, ExpandTypeOK, GraphInv, GraphTypeOK
  <1>4. Marked = 1..(mi - 1) /\ Marked' = 1..mi /\ Marked \subseteq DOMAIN nodes
    BY <1>2, <1>3 DEF Marked
  <1>5. \A i \in Marked' : i \in Marked \/ i = mi
    BY <1>3, <1>4
  <1>6. GraphTypeOK'
    <2>1. mi' \in 1..(Len(nodes') + 1)
      BY <1>1, <1>2, <1>3
    <2>2. Expanded
      BY DEF GraphInv, GraphTypeOK
    <2>3. QED
      BY <1>1, <1>2, <2>1, <2>2 DEF GraphInv, GraphTypeOK
  <1>7. MarkPlace'
    BY <1>2 DEF MarkPlace
  <1>8. \A i \in Marked : outdated'[i] = outdated[i]
    BY <1>2, <1>3, <1>4
  <1>9. /\ \A i \in Marked : (nodes[i].parent # 0 /\ nodes[i].parent \in Marked
                                  /\ outdated'[nodes[i].parent]) => outdated'[i]
        /\ \A i \in Marked : ~outdated'[i] =>
              /\ Id(nodes[i]) \in DOMAIN stats'
              /\ ChainOf(nodes[i]) # << >> => nodes[i].base \in DOMAIN stats'
              /\ ~Stale(ChainOf(nodes[i]), stats'[Id(nodes[i])], stats'[nodes[i].base])
    BY <1>1, <1>4, <1>8, JudgedStable DEF GraphInv
  <1>10. OutdatedClosed'
    <2> SUFFICES ASSUME NEW i \in Marked', nodes[i].parent # 0, outdated'[nodes[i].parent]
                 PROVE  outdated'[i]
      BY <1>1 DEF OutdatedClosed
    <2>1. i \in DOMAIN nodes /\ nodes[i].parent \in DOMAIN nodes /\ nodes[i].parent < i
      <3>1. i \in DOMAIN nodes
        BY <1>4, <1>5
      <3>2. QED
        BY <3>1, NodeRefs
    <2>2. CASE i \in Marked
      BY <1>3, <1>4, <1>9, <2>1, <2>2
    <2>3. CASE i = mi
      <3>1. nodes[i].parent # mi
        BY <1>3, <2>1, <2>3
      <3>2. outdated[nodes[i].parent]
        BY <1>2, <2>1, <3>1
      <3>3. AnyParentOutdated
        BY <2>3, <3>2 DEF AnyParentOutdated, node
      <3>4. QED
        BY <1>2, <2>3, <3>3
    <2>4. QED
      BY <1>5, <2>2, <2>3
  <1>11. OkWasRead'
    <2> SUFFICES ASSUME NEW i \in Marked', ~outdated'[i]
                 PROVE  /\ Id(nodes[i]) \in DOMAIN stats'
                        /\ ChainOf(nodes[i]) # << >> => nodes[i].base \in DOMAIN stats'
                        /\ ~Stale(ChainOf(nodes[i]), stats'[Id(nodes[i])], stats'[nodes[i].base])
      BY <1>1 DEF OkWasRead, Id, ChainOf, Stale, ChainSays, Says
    <2>1. CASE i \in Marked
      BY <1>9, <2>1
    <2>2. CASE i = mi
      BY <1>2, <2>2 DEF node, chain, ChainOf
    <2>3. QED
      BY <1>5, <2>1, <2>2
  <1>12. QED
    BY <1>6, <1>7, <1>10, <1>11 DEF GraphInv

LEMMA GraphInvTarget ==
    ASSUME ExpandInv, GraphInv, MarkingOnly, StatTarget
    PROVE  GraphInv'
  <1>1. mark = "target" /\ mi \in DOMAIN nodes /\ stats' = Remember(Id(node))
    BY DEF StatTarget, GraphInv, GraphTypeOK, ExpandInv, ExpandTypeOK
  <1>2. Id(node) \in Ref
    BY <1>1, NodeRefs DEF node
  <1>3. /\ DOMAIN stats' = DOMAIN stats \cup {Id(node)}
        /\ \A s \in DOMAIN stats : s \in DOMAIN stats' /\ stats'[s] = stats[s]
        /\ stats'[Id(node)] = Reading(Id(node))
        /\ DOMAIN stats' \subseteq Ref
        /\ \A s \in DOMAIN stats' : stats'[s] \in Image \cup {Missing}
    BY <1>1, <1>2, Remembered DEF GraphInv
  <1>4. CASE AnyParentOutdated \/ Reading(Id(node)) = Missing
    <2>1. Decide(TRUE)
      BY <1>4 DEF StatTarget, NeedsBuild
    <2>2. QED
      BY <1>1, <1>3, <2>1, VerdictKept
  <1>5. CASE ~AnyParentOutdated /\ Reading(Id(node)) # Missing /\ chain = << >>
    <2>1. Decide(FALSE)
      BY <1>5 DEF StatTarget, NeedsBuild
    <2>2. ~Stale(chain, stats'[Id(node)], stats'[node.base])
      BY <1>3, <1>5 DEF Stale
    <2>3. QED
      BY <1>1, <1>3, <1>5, <2>1, <2>2, VerdictKept
  <1>6. CASE ~AnyParentOutdated /\ Reading(Id(node)) # Missing /\ chain # << >>
    <2>1. mark' = "base" /\ mi' = mi /\ outdated' = outdated
      BY <1>6 DEF StatTarget, NeedsBuild
    <2>2. /\ ExpandTypeOK' /\ UNCHANGED << ports, nodes, pc, at, out, reg, cached, moves >>
          /\ Expanded' = Expanded
      BY KeptTypes DEF ExpandInv
    <2>3. UNCHANGED << node, chain, AnyParentOutdated, Id(node), Marked >>
      BY <1>1, <2>1, <2>2 DEF node, chain, AnyParentOutdated, Id, Marked
    <2>4. GraphTypeOK'
      BY <1>1, <1>3, <2>1, <2>2 DEF GraphInv, GraphTypeOK
    <2>5. MarkPlace'
      <3>1. mi <= Len(nodes)
        BY DEF StatTarget
      <3>2. QED
        BY <1>3, <1>6, <2>1, <2>2, <2>3, <3>1 DEF MarkPlace
    <2>6. Marked \subseteq DOMAIN nodes
      BY <1>1 DEF Marked, GraphInv, GraphTypeOK, ExpandInv, ExpandTypeOK
    <2>7. /\ \A i \in Marked : ~outdated'[i] =>
                /\ Id(nodes[i]) \in DOMAIN stats'
                /\ ChainOf(nodes[i]) # << >> => nodes[i].base \in DOMAIN stats'
                /\ ~Stale(ChainOf(nodes[i]), stats'[Id(nodes[i])], stats'[nodes[i].base])
      BY <1>3, <2>1, <2>2, <2>6, JudgedStable DEF GraphInv
    <2>8. OutdatedClosed'
      BY <2>1, <2>2, <2>3 DEF GraphInv, OutdatedClosed
    <2>9. OkWasRead'
      BY <2>2, <2>3, <2>7 DEF OkWasRead, Id, ChainOf, Stale, ChainSays, Says
    <2>10. QED
      BY <2>4, <2>5, <2>8, <2>9 DEF GraphInv
  <1>7. QED
    BY <1>4, <1>5, <1>6

LEMMA GraphInvBase ==
    ASSUME ExpandInv, GraphInv, MarkingOnly, StatBase
    PROVE  GraphInv'
  <1> DEFINE base == Reading(node.base)
  <1>1. /\ mark = "base" /\ mi \in DOMAIN nodes /\ stats' = Remember(node.base)
        /\ Decide(base = Missing \/ ChainSays(chain, base, Reading(Id(node))))
    BY DEF StatBase, BaseSays, GraphInv, GraphTypeOK, MarkPlace, ExpandInv, ExpandTypeOK
  <1>2. node.base \in Ref
    BY <1>1, NodeRefs DEF node
  <1>3. /\ DOMAIN stats' = DOMAIN stats \cup {node.base}
        /\ \A s \in DOMAIN stats : s \in DOMAIN stats' /\ stats'[s] = stats[s]
        /\ stats'[node.base] = Reading(node.base)
        /\ DOMAIN stats' \subseteq Ref
        /\ \A s \in DOMAIN stats' : stats'[s] \in Image \cup {Missing}
    BY <1>1, <1>2, Remembered DEF GraphInv
  <1>4. /\ Id(node) \in DOMAIN stats /\ stats[Id(node)] # Missing /\ chain # << >>
        /\ ~AnyParentOutdated
    BY <1>1 DEF GraphInv, MarkPlace
  <1>5. Reading(Id(node)) = stats[Id(node)] /\ stats'[Id(node)] = stats[Id(node)]
    BY <1>3, <1>4 DEF Reading
  <1>6. CASE base = Missing \/ ChainSays(chain, base, Reading(Id(node)))
    <2>1. Decide(TRUE)
      BY <1>1, <1>6 DEF Decide
    <2>2. QED
      BY <1>1, <1>3, <2>1, VerdictKept
  <1>7. CASE ~(base = Missing \/ ChainSays(chain, base, Reading(Id(node))))
    <2>1. Decide(FALSE)
      BY <1>1, <1>7 DEF Decide
    <2>2. ~Stale(chain, stats'[Id(node)], stats'[node.base])
      BY <1>3, <1>4, <1>5, <1>7 DEF Stale
    <2>3. QED
      BY <1>1, <1>3, <1>4, <2>1, <2>2, VerdictKept
  <1>8. QED
    BY <1>6, <1>7

(* The other steps of the marking write no verdict.                          *)
LEMMA GraphInvAround ==
    ASSUME ExpandInv, GraphInv, MarkingOnly, BeginMark \/ StatFails \/ EndMark
    PROVE  GraphInv'
  <1>1. /\ ExpandTypeOK' /\ UNCHANGED << ports, nodes, pc, at, out, reg, cached, moves >>
        /\ Expanded' = Expanded
    BY KeptTypes DEF ExpandInv
  <1>2. UNCHANGED << mi, stats >> /\ mark' \in {"target", "failed", "done"}
    BY DEF BeginMark, StatFails, EndMark
  <1>3. GraphTypeOK'
    BY <1>1, <1>2 DEF GraphInv, GraphTypeOK, BeginMark, StatFails, EndMark
  <1>4. MarkPlace'
    BY <1>2 DEF MarkPlace
  <1>5. CASE BeginMark
    <2>1. mark = "idle" /\ mi = 1
      BY <1>5 DEF BeginMark, GraphInv, MarkPlace
    <2>2. Marked' = {}
      BY <1>2, <2>1 DEF Marked
    <2>3. QED
      BY <1>3, <1>4, <2>2 DEF GraphInv, OutdatedClosed, OkWasRead
  <1>6. CASE StatFails \/ EndMark
    <2>1. outdated' = outdated /\ mark # "idle"
      BY <1>6 DEF StatFails, EndMark
    <2>2. Marked' = Marked
      BY <1>2, <2>1 DEF Marked
    <2>3. OutdatedClosed'
      BY <1>1, <2>1, <2>2 DEF GraphInv, OutdatedClosed
    <2>4. OkWasRead'
      BY <1>1, <1>2, <2>1, <2>2 DEF GraphInv, OkWasRead, Id, ChainOf, Stale, ChainSays, Says
    <2>5. QED
      BY <1>3, <1>4, <2>3, <2>4 DEF GraphInv
  <1>7. QED
    BY <1>5, <1>6

(* Nothing of the run changes, though the registry may.                      *)
LEMMA GraphInvStable ==
    ASSUME GraphInv, UNCHANGED << expandVars, markVars >>,
           DOMAIN reg' \subseteq Ref,
           \A r \in DOMAIN reg' : reg'[r] \in Image \cup {Missing},
           moves' \in 0..MaxMoves, cached' = cached
    PROVE  GraphInv'
  <1>1. UNCHANGED << ports, indeg, next, queue, kids, out, verdict, pc, at, todo, match,
                     tmpl, got, expanded, nodes, owner, mark, mi, stats, outdated >>
    BY DEF expandVars, sortVars, nodesVars, markVars
  <1>2. ExpandTypeOK' /\ Expanded' = Expanded
    BY <1>1 DEF GraphInv, GraphTypeOK, ExpandTypeOK, SortTypeOK, Node, Idx, N, Expanded
  <1>3. GraphTypeOK'
    BY <1>1, <1>2 DEF GraphInv, GraphTypeOK
  <1>4. UNCHANGED << node, chain, AnyParentOutdated, Marked >>
    BY <1>1 DEF node, chain, AnyParentOutdated, Marked
  <1>5. MarkPlace'
    BY <1>1, <1>4 DEF GraphInv, MarkPlace, Id
  <1>6. OutdatedClosed'
    BY <1>1, <1>4 DEF GraphInv, OutdatedClosed
  <1>7. OkWasRead'
    BY <1>1, <1>4 DEF GraphInv, OkWasRead, Id, ChainOf, Stale, ChainSays, Says
  <1>8. QED
    BY <1>3, <1>5, <1>6, <1>7 DEF GraphInv

(* Until the marking begins there are no verdicts to keep.                   *)
LEMMA GraphInvExpand ==
    ASSUME ExpandInv, ExpandInv', SortInv, GraphInv, ExpandNext,
           UNCHANGED << markVars, envVars >>
    PROVE  GraphInv'
  <1>1. UNCHANGED << mark, mi, stats, outdated, reg, cached, moves >>
    BY DEF markVars, envVars
  <1>2. CASE mark = "idle"
    <2>1. ExpandTypeOK' /\ Len(nodes') \in Nat
      BY DEF ExpandInv, ExpandTypeOK
    <2>2. mi = 1
      BY <1>2 DEF GraphInv, MarkPlace
    <2>3. GraphTypeOK'
      BY <1>1, <1>2, <2>1, <2>2 DEF GraphInv, GraphTypeOK
    <2>4. Marked' = {} /\ MarkPlace'
      BY <1>1, <1>2, <2>2 DEF Marked, MarkPlace
    <2>5. QED
      BY <2>3, <2>4 DEF GraphInv, OutdatedClosed, OkWasRead
  <1>3. CASE mark # "idle"
    <2>1. Expanded
      BY <1>3 DEF GraphInv, GraphTypeOK
    <2>2. UNCHANGED expandVars
      BY <2>1, ExpandedStops
    <2>3. QED
      BY <1>1, <2>2, GraphInvStable DEF GraphInv, GraphTypeOK
  <1>4. QED
    BY <1>2, <1>3

LEMMA GraphInvMove ==
    ASSUME GraphInv, Move, UNCHANGED << expandVars, markVars >>
    PROVE  GraphInv'
  <1>1. PICK p \in Pushes :
           reg' = [r \in DOMAIN reg \cup {p[1]} |-> IF r = p[1] THEN p[2] ELSE reg[r]]
    BY DEF Move
  <1>2. p[1] \in Ref /\ p[2] \in Image \cup {Missing}
    BY <1>1, RegistryAssumption
  <1>3. DOMAIN reg' \subseteq Ref /\ \A r \in DOMAIN reg' : reg'[r] \in Image \cup {Missing}
    BY <1>1, <1>2 DEF GraphInv, GraphTypeOK
  <1>4. moves' \in 0..MaxMoves /\ cached' = cached
    BY RegistryAssumption DEF Move, GraphInv, GraphTypeOK
  <1>5. QED
    BY <1>3, <1>4, GraphInvStable

LEMMA GraphInvStep ==
    ASSUME ExpandInv, ExpandInv', SortInv, GraphInv, [GraphNext]_graphVars
    PROVE  GraphInv'
  <1>1. CASE ExpandNext /\ UNCHANGED markVars /\ UNCHANGED envVars
    BY <1>1, GraphInvExpand
  <1>2. CASE MarkNext /\ UNCHANGED expandVars /\ UNCHANGED envVars
    <2>1. MarkingOnly
      BY <1>2 DEF MarkingOnly
    <2>2. QED
      BY <1>2, <2>1, GraphInvTarget, GraphInvBase, GraphInvAround DEF MarkNext
  <1>3. CASE Move /\ UNCHANGED << expandVars, markVars >>
    BY <1>3, GraphInvMove
  <1>4. CASE UNCHANGED graphVars
    BY <1>4, GraphInvStable DEF graphVars, envVars, GraphInv, GraphTypeOK
  <1>5. QED
    BY <1>1, <1>2, <1>3, <1>4 DEF GraphNext, Build
-----------------------------------------------------------------------------
(* While the registry stands still, what was read is what is there, and each *)
(* verdict is that of the node and its parent, read off the registry.        *)
ReadAsIs == moves = 0 => \A r \in DOMAIN stats : stats[r] = Seen(r)

StaleNow(i) == Stale(ChainOf(nodes[i]), Seen(Id(nodes[i])), Seen(nodes[i].base))

ParentOutdated(i) == nodes[i].parent # 0 /\ outdated[nodes[i].parent]

JudgedExactly ==
    moves = 0 => \A i \in Marked : outdated[i] <=> ParentOutdated(i) \/ StaleNow(i)

MarkingInv == /\ ReadAsIs
              /\ JudgedExactly
              /\ mark = "done" => mi = Len(nodes) + 1

(* A reference that is asked for is remembered as it is.                     *)
LEMMA ReadAsIsKept ==
    ASSUME GraphTypeOK, ReadAsIs, NEW r \in Ref, stats' = Remember(r),
           UNCHANGED << reg, cached, moves >>
    PROVE  ReadAsIs' /\ (moves = 0 => Reading(r) = Seen(r))
  <1> SUFFICES ASSUME moves = 0
               PROVE  (\A s \in DOMAIN stats' : stats'[s] = Seen(s)') /\ Reading(r) = Seen(r)
    BY DEF ReadAsIs
  <1>1. \A s : Seen(s)' = Seen(s)
    BY DEF Seen, Held
  <1>2. Reading(r) = Seen(r)
    BY DEF Reading, ReadAsIs
  <1>3. \A s \in DOMAIN stats' : stats'[s] = Seen(s)
    BY <1>2, Remembered DEF ReadAsIs
  <1>4. QED
    BY <1>1, <1>2, <1>3

(* The verdict written at mi is exact if the verdicts before it are.         *)
LEMMA VerdictExact ==
    ASSUME ExpandInv, GraphInv, MarkingInv, MarkingOnly, ReadAsIs', mark # "idle",
           mi \in DOMAIN nodes, NEW flag \in BOOLEAN, Decide(flag),
           moves = 0 => (flag <=> AnyParentOutdated \/ StaleNow(mi))
    PROVE  MarkingInv'
  <1>1. /\ outdated'[mi] = flag /\ mi' = mi + 1 /\ mark' = "target"
        /\ \A j \in DOMAIN nodes : j # mi => outdated'[j] = outdated[j]
    BY Decided DEF GraphInv
  <1>2. UNCHANGED << ports, nodes, reg, cached, moves >>
    BY KeptTypes DEF ExpandInv
  <1>3. \A i : StaleNow(i)' = StaleNow(i)
    BY <1>2 DEF StaleNow, Stale, ChainSays, Says, ChainOf, Id, Seen, Held
  <1>4. /\ DOMAIN nodes = 1..Len(nodes) /\ Len(nodes) \in Nat /\ mi \in Nat
        /\ Marked = 1..(mi - 1) /\ Marked' = 1..mi /\ Marked \subseteq DOMAIN nodes
    BY <1>1 DEF ExpandInv, ExpandTypeOK, GraphInv, GraphTypeOK, Marked
  <1>5. ASSUME moves = 0, NEW i \in Marked'
        PROVE  outdated'[i] <=> ParentOutdated(i)' \/ StaleNow(i)
    <2>1. i \in DOMAIN nodes /\ i <= mi
      BY <1>4, <1>5
    <2>2. ParentOutdated(i)' = ParentOutdated(i)
      <3>1. nodes[i].parent # 0 => nodes[i].parent \in DOMAIN nodes /\ nodes[i].parent # mi
        BY <1>4, <2>1, NodeRefs
      <3>2. QED
        BY <1>1, <1>2, <3>1 DEF ParentOutdated
    <2>3. CASE i = mi
      BY <1>1, <1>5, <2>2, <2>3 DEF ParentOutdated, AnyParentOutdated, node
    <2>4. CASE i # mi
      BY <1>1, <1>4, <1>5, <2>1, <2>2, <2>4 DEF MarkingInv, JudgedExactly
    <2>5. QED
      BY <2>3, <2>4
  <1>6. JudgedExactly'
    BY <1>2, <1>3, <1>5 DEF JudgedExactly
  <1>7. QED
    BY <1>1, <1>6 DEF MarkingInv

LEMMA MarkingInvTarget ==
    ASSUME ExpandInv, GraphInv, MarkingInv, MarkingOnly, StatTarget
    PROVE  MarkingInv'
  <1>1. mark = "target" /\ mi \in DOMAIN nodes /\ stats' = Remember(Id(node))
    BY DEF StatTarget, GraphInv, GraphTypeOK, ExpandInv, ExpandTypeOK
  <1>2. Id(node) \in Ref
    BY <1>1, NodeRefs DEF node
  <1>3. UNCHANGED << ports, nodes, reg, cached, moves >>
    BY KeptTypes DEF ExpandInv
  <1>4. ReadAsIs' /\ (moves = 0 => Reading(Id(node)) = Seen(Id(node)))
    BY <1>1, <1>2, <1>3, ReadAsIsKept DEF MarkingInv, GraphInv
  <1>5. CASE NeedsBuild
    <2>1. Decide(TRUE)
      BY <1>5 DEF StatTarget
    <2>2. moves = 0 => AnyParentOutdated \/ StaleNow(mi)
      BY <1>4, <1>5 DEF NeedsBuild, StaleNow, Stale, node
    <2>3. QED
      BY <1>1, <1>4, <2>1, <2>2, VerdictExact
  <1>6. CASE ~NeedsBuild /\ chain = << >>
    <2>1. Decide(FALSE)
      BY <1>6 DEF StatTarget
    <2>2. moves = 0 => ~AnyParentOutdated /\ ~StaleNow(mi)
      BY <1>4, <1>6 DEF NeedsBuild, StaleNow, Stale, node, chain, ChainOf
    <2>3. QED
      BY <1>1, <1>4, <2>1, <2>2, VerdictExact
  <1>7. CASE ~NeedsBuild /\ chain # << >>
    <2>1. mark' = "base" /\ mi' = mi /\ outdated' = outdated
      BY <1>7 DEF StatTarget
    <2>2. Marked' = Marked
      BY <1>1, <2>1 DEF Marked
    <2>3. JudgedExactly'
      BY <1>3, <2>1, <2>2 DEF MarkingInv, JudgedExactly, ParentOutdated, StaleNow, Stale,
                              ChainSays, Says, ChainOf, Id, Seen, Held
    <2>4. QED
      BY <1>4, <2>1, <2>3 DEF MarkingInv
  <1>8. QED
    BY <1>5, <1>6, <1>7

LEMMA MarkingInvBase ==
    ASSUME ExpandInv, GraphInv, MarkingInv, MarkingOnly, StatBase
    PROVE  MarkingInv'
  <1>1. /\ mark = "base" /\ mi \in DOMAIN nodes /\ stats' = Remember(node.base)
        /\ Decide(BaseSays(Reading(node.base)))
    BY DEF StatBase, GraphInv, GraphTypeOK, MarkPlace, ExpandInv, ExpandTypeOK
  <1>2. node.base \in Ref
    BY <1>1, NodeRefs DEF node
  <1>3. UNCHANGED << ports, nodes, reg, cached, moves >>
    BY KeptTypes DEF ExpandInv
  <1>4. ReadAsIs' /\ (moves = 0 => Reading(node.base) = Seen(node.base))
    BY <1>1, <1>2, <1>3, ReadAsIsKept DEF MarkingInv, GraphInv
  <1>5. /\ Id(node) \in DOMAIN stats /\ stats[Id(node)] # Missing /\ chain # << >>
        /\ ~AnyParentOutdated
    BY <1>1 DEF GraphInv, MarkPlace
  <1>6. moves = 0 => Seen(Id(node)) # Missing /\ Reading(Id(node)) = Seen(Id(node))
    BY <1>5 DEF MarkingInv, ReadAsIs, Reading
  <1>7. PICK flag \in BOOLEAN : Decide(flag) /\ (flag <=> BaseSays(Reading(node.base)))
    <2>1. CASE BaseSays(Reading(node.base))
      <3>1. Decide(TRUE)
        BY <1>1, <2>1 DEF Decide, BaseSays
      <3>2. QED
        BY <2>1, <3>1
    <2>2. CASE ~BaseSays(Reading(node.base))
      <3>1. Decide(FALSE)
        BY <1>1, <2>2 DEF Decide, BaseSays
      <3>2. QED
        BY <2>2, <3>1
    <2>3. QED
      BY <2>1, <2>2
  <1>8. moves = 0 => (flag <=> StaleNow(mi))
    BY <1>4, <1>5, <1>6, <1>7 DEF BaseSays, StaleNow, Stale, ChainOf, chain, node
  <1>9. QED
    BY <1>1, <1>4, <1>5, <1>7, <1>8, VerdictExact

LEMMA MarkingInvStep ==
    ASSUME ExpandInv, SortInv, GraphInv, MarkingInv, [GraphNext]_graphVars
    PROVE  MarkingInv'
  <1>1. CASE UNCHANGED << expandVars, markVars, envVars >>
    <2>1. UNCHANGED << ports, nodes, mark, mi, stats, outdated, reg, cached, moves >>
      BY <1>1 DEF expandVars, sortVars, nodesVars, markVars, envVars
    <2>2. QED
      BY <2>1 DEF MarkingInv, ReadAsIs, JudgedExactly, ParentOutdated, StaleNow, Stale,
                  ChainSays, Says, ChainOf, Id, Seen, Held, Marked
  <1>2. CASE ExpandNext /\ UNCHANGED << markVars, envVars >>
    <2>1. UNCHANGED << mark, mi, stats, outdated, reg, cached, moves >>
      BY <1>2 DEF markVars, envVars
    <2>2. CASE mark = "idle"
      BY <2>1, <2>2 DEF MarkingInv, ReadAsIs, JudgedExactly, Marked, Seen, Held
    <2>3. CASE mark # "idle"
      <3>1. UNCHANGED expandVars
        BY <1>2, <2>3, ExpandedStops DEF GraphInv, GraphTypeOK
      <3>2. QED
        BY <1>1, <1>2, <3>1
    <2>4. QED
      BY <2>2, <2>3
  <1>3. CASE MarkNext /\ MarkingOnly
    <2>1. CASE StatTarget
      BY <1>3, <2>1, MarkingInvTarget
    <2>2. CASE StatBase
      BY <1>3, <2>2, MarkingInvBase
    <2>3. CASE BeginMark \/ StatFails \/ EndMark
      <3>1. UNCHANGED << ports, nodes, reg, cached, moves, mi, stats >>
        BY <1>3, <2>3, KeptTypes DEF ExpandInv, BeginMark, StatFails, EndMark
      <3>2. mark' = "done" => mi' = Len(nodes') + 1
        BY <2>3, <3>1 DEF BeginMark, StatFails, EndMark, GraphInv, GraphTypeOK, ExpandInv,
                          ExpandTypeOK
      <3>3. ReadAsIs'
        BY <3>1 DEF MarkingInv, ReadAsIs, Seen, Held
      <3>4. CASE BeginMark
        <4>1. mark' = "target" /\ mi' = 1
          BY <3>4 DEF BeginMark, GraphInv, MarkPlace
        <4>2. Marked' = {}
          BY <4>1 DEF Marked
        <4>3. QED
          BY <3>2, <3>3, <4>2 DEF MarkingInv, JudgedExactly
      <3>5. CASE StatFails \/ EndMark
        <4>1. outdated' = outdated /\ mark # "idle" /\ mark' # "idle"
          BY <3>5 DEF StatFails, EndMark
        <4>2. Marked' = Marked
          BY <3>1, <4>1 DEF Marked
        <4>3. JudgedExactly'
          BY <3>1, <4>1, <4>2 DEF MarkingInv, JudgedExactly, ParentOutdated, StaleNow, Stale,
                                  ChainSays, Says, ChainOf, Id, Seen, Held
        <4>4. QED
          BY <3>2, <3>3, <4>3 DEF MarkingInv
      <3>6. QED
        BY <2>3, <3>4, <3>5
    <2>4. QED
      BY <1>3, <2>1, <2>2, <2>3 DEF MarkNext
  <1>4. CASE Move /\ UNCHANGED << expandVars, markVars >>
    <2>1. moves' # 0 /\ UNCHANGED << nodes, mark, mi >>
      BY <1>4 DEF Move, GraphInv, GraphTypeOK, expandVars, nodesVars, markVars
    <2>2. QED
      BY <2>1 DEF MarkingInv, ReadAsIs, JudgedExactly
  <1>5. QED
    BY <1>1, <1>2, <1>3, <1>4 DEF GraphNext, Build, graphVars, MarkingOnly

(* The loop ends behind the last node.                                       *)
DoneAtEnd == mark = "done" => mi = Len(nodes) + 1

LEMMA DoneAtEndStep ==
    ASSUME ExpandInv, SortInv, GraphInv, DoneAtEnd, [GraphNext]_graphVars
    PROVE  DoneAtEnd'
  <1>1. CASE ExpandNext /\ UNCHANGED << markVars, envVars >>
    <2>1. CASE mark = "idle"
      BY <1>1, <2>1 DEF DoneAtEnd, markVars
    <2>2. CASE mark # "idle"
      <3>1. UNCHANGED expandVars
        BY <1>1, <2>2, ExpandedStops DEF GraphInv, GraphTypeOK
      <3>2. QED
        BY <1>1, <3>1 DEF DoneAtEnd, markVars, expandVars, nodesVars
    <2>3. QED
      BY <2>1, <2>2
  <1>2. CASE MarkNext /\ UNCHANGED expandVars
    <2>1. nodes' = nodes /\ mi \in Nat /\ mi <= Len(nodes) + 1
      BY <1>2 DEF expandVars, nodesVars, GraphInv, GraphTypeOK, ExpandTypeOK
    <2>2. CASE EndMark
      BY <2>1, <2>2 DEF EndMark, DoneAtEnd, ExpandInv, ExpandTypeOK
    <2>3. CASE BeginMark \/ StatTarget \/ StatBase \/ StatFails
      BY <2>3 DEF BeginMark, StatTarget, StatBase, StatFails, Decide, DoneAtEnd
    <2>4. QED
      BY <1>2, <2>2, <2>3 DEF MarkNext
  <1>3. CASE UNCHANGED << expandVars, markVars >>
    BY <1>3 DEF DoneAtEnd, expandVars, nodesVars, markVars
  <1>4. QED
    BY <1>1, <1>2, <1>3 DEF GraphNext, Build, graphVars

(* A finished Build takes no step any more.                                  *)
LEMMA DoneStops ==
    ASSUME ExpandInv, SortInv, GraphInv, mark = "done", [GraphNext]_graphVars
    PROVE  UNCHANGED graphVars
  <1>1. Expanded
    BY DEF GraphInv, GraphTypeOK
  <1>2. ~MarkNext /\ ~Move
    BY DEF MarkNext, BeginMark, StatTarget, StatBase, StatFails, EndMark, Move
  <1>3. ExpandNext => UNCHANGED expandVars
    BY <1>1, ExpandedStops
  <1>4. QED
    BY <1>2, <1>3 DEF GraphNext, Build, graphVars
-----------------------------------------------------------------------------
(* The ancestors of a node, one generation after the other.                  *)
LEMMA LineageUnfold ==
    ASSUME ExpandInv, NEW i \in DOMAIN nodes
    PROVE  Lineage(i) = IF nodes[i].parent # 0 THEN {i} \cup Lineage(nodes[i].parent) ELSE {i}
  <1> DEFINE par == [j \in DOMAIN nodes |-> nodes[j].parent]
             n == Len(nodes)
             Value(f, j) == IF nodes[j].parent \in 1..(j - 1)
                            THEN {j} \cup f[nodes[j].parent] ELSE {j}
             up == CHOOSE f : f = [j \in DOMAIN nodes |-> Value(f, j)]
  <1>1. n \in Nat /\ DOMAIN nodes = 1..n
    BY DEF ExpandInv, ExpandTypeOK
  <1>2. \E f : f = [j \in DOMAIN nodes |-> Value(f, j)]
    <2>1. \E f : f = [j \in 1..n |-> IF par[j] \in 1..(j - 1) THEN {j} \cup f[par[j]] ELSE {j}]
      <3> HIDE DEF par, n
      <3>1. QED
        BY <1>1, AncestorsExist
    <2>2. \A f : [j \in 1..n |-> IF par[j] \in 1..(j - 1) THEN {j} \cup f[par[j]] ELSE {j}]
                   = [j \in DOMAIN nodes |-> Value(f, j)]
      BY <1>1
    <2>3. QED
      BY <2>1, <2>2, Zenon
  <1>3. up = [j \in DOMAIN nodes |-> Value(up, j)]
    BY <1>2, Zenon
  <1>4. \A j : Lineage(j) = up[j]
    BY Zenon DEF Lineage
  <1>5. up[i] = Value(up, i)
    <2> DEFINE h == [j \in DOMAIN nodes |-> Value(up, j)]
    <2>1. h[i] = Value(up, i)
      OBVIOUS
    <2>2. up = h
      BY <1>3, Zenon
    <2>3. QED
      BY <2>1, <2>2, Zenon
  <1>6. nodes[i].parent # 0 <=> nodes[i].parent \in 1..(i - 1)
    BY <1>1, NodeRefs
  <1> HIDE DEF up
  <1>7. QED
    BY <1>4, <1>5, <1>6

(* A node is its own first ancestor, ancestors of ancestors are ancestors,   *)
(* and any other one is the parent of an ancestor after it.                  *)
LineageSound(i) ==
    /\ i \in Lineage(i)
    /\ Lineage(i) \subseteq 1..i
    /\ \A k \in Lineage(i) : Lineage(k) \subseteq Lineage(i)
    /\ \A k \in Lineage(i) : k # i => \E c \in Lineage(i) : nodes[c].parent = k

LEMMA LineageFacts ==
    ASSUME ExpandInv
    PROVE  \A i \in DOMAIN nodes : LineageSound(i)
  <1> DEFINE Bad == {i \in DOMAIN nodes : ~LineageSound(i)}
  <1>1. SUFFICES ASSUME Bad # {} PROVE FALSE
    OBVIOUS
  <1>2. PICK i \in Bad : \A j \in Bad : i <= j
    <2>1. Bad \in SUBSET Nat
      BY DEF ExpandInv, ExpandTypeOK
    <2>2. QED
      BY <1>1, <2>1, LeastNatural
  <1>3. i \in DOMAIN nodes /\ i \in Nat /\ i # 0 /\ ~LineageSound(i)
    BY DEF ExpandInv, ExpandTypeOK
  <1> DEFINE p == nodes[i].parent
  <1>4. CASE p = 0
    <2>1. Lineage(i) = {i}
      BY <1>3, <1>4, LineageUnfold
    <2>2. QED
      BY <1>3, <2>1 DEF LineageSound
  <1>5. CASE p # 0
    <2>1. Lineage(i) = {i} \cup Lineage(p)
      BY <1>3, <1>5, LineageUnfold
    <2>2. p \in DOMAIN nodes /\ p < i /\ p \in Nat
      BY <1>3, <1>5, NodeRefs
    <2>3. p \notin Bad
      BY <1>2, <1>3, <2>2
    <2>4. LineageSound(p)
      BY <2>2, <2>3
    <2> HIDE DEF Bad
    <2>5. i \in Lineage(i) /\ Lineage(i) \subseteq 1..i
      BY <1>3, <2>1, <2>2, <2>4 DEF LineageSound
    <2>6. \A k \in Lineage(i) : Lineage(k) \subseteq Lineage(i)
      BY <2>1, <2>4 DEF LineageSound
    <2>7. ASSUME NEW k \in Lineage(i), k # i
          PROVE  \E c \in Lineage(i) : nodes[c].parent = k
      <3>1. CASE k = p
        BY <2>5, <3>1
      <3>2. CASE k # p
        <4>1. k \in Lineage(p)
          BY <2>1, <2>7
        <4>2. PICK c \in Lineage(p) : nodes[c].parent = k
          BY <2>4, <3>2, <4>1 DEF LineageSound
        <4>3. QED
          BY <2>1, <4>2
      <3>3. QED
        BY <3>1, <3>2
    <2>8. QED
      BY <1>3, <2>5, <2>6, <2>7 DEF LineageSound
  <1>6. QED
    BY <1>4, <1>5

(* Exact verdicts, node by node, add up to the definition of outdated.       *)
LEMMA MarkingIsExact ==
    ASSUME ExpandInv, GraphInv, MarkingInv
    PROVE  MarkingExact
  <1> SUFFICES ASSUME mark = "done", moves = 0
               PROVE  \A i \in DOMAIN nodes :
                         outdated[i] <=> \E j \in Lineage(i) : StaleNow(j)
    BY DEF MarkingExact, StaleNow
  <1> DEFINE Exact(i) == outdated[i] <=> \E j \in Lineage(i) : StaleNow(j)
             Bad == {i \in DOMAIN nodes : ~Exact(i)}
  <1>1. SUFFICES ASSUME Bad # {} PROVE FALSE
    OBVIOUS
  <1>2. PICK i \in Bad : \A j \in Bad : i <= j
    <2>1. Bad \in SUBSET Nat
      BY DEF ExpandInv, ExpandTypeOK
    <2>2. QED
      BY <1>1, <2>1, LeastNatural
  <1>3. Marked = DOMAIN nodes
    BY DEF MarkingInv, Marked, ExpandInv, ExpandTypeOK
  <1>4. i \in DOMAIN nodes /\ ~Exact(i)
    OBVIOUS
  <1>5. outdated[i] <=> ParentOutdated(i) \/ StaleNow(i)
    BY <1>3, <1>4 DEF MarkingInv, JudgedExactly
  <1>6. CASE nodes[i].parent = 0
    <2>1. Lineage(i) = {i}
      BY <1>4, <1>6, LineageUnfold
    <2>2. QED
      BY <1>4, <1>5, <1>6, <2>1 DEF ParentOutdated
  <1>7. CASE nodes[i].parent # 0
    <2> DEFINE p == nodes[i].parent
    <2>1. Lineage(i) = {i} \cup Lineage(p)
      BY <1>4, <1>7, LineageUnfold
    <2>2. p \in DOMAIN nodes /\ p < i /\ p \in Nat /\ i \in Nat
      BY <1>4, <1>7, NodeRefs DEF ExpandInv, ExpandTypeOK
    <2>3. Exact(p)
      BY <1>2, <2>2
    <2>4. QED
      BY <1>4, <1>5, <1>7, <2>1, <2>3 DEF ParentOutdated
  <1>8. QED
    BY <1>6, <1>7
-----------------------------------------------------------------------------
(* Marking leaves the nodes alone: what was proved of the expansion holds of *)
(* every run of Build.                                                       *)
THEOREM GraphExpands == GraphSpec => ExpandSpec
  <1>1. GraphInit => ExpandInit
    BY DEF GraphInit
  <1>2. [GraphNext]_graphVars => [ExpandNext]_expandVars
    BY DEF GraphNext, Build, graphVars
  <1>3. QED
    BY <1>1, <1>2, PTL DEF GraphSpec, ExpandSpec

(* The inductive invariant of a run of Build, whatever the registry does.    *)
THEOREM GraphInvariant == GraphSpec => []GraphInv
  <1>1. GraphSpec => []ExpandInv /\ []SortInv
    BY GraphExpands, ExpandInvariant, ExpandSorts, SortInvariant, PTL
  <1>2. ExpandInv /\ ExpandInv' /\ SortInv /\ GraphInv /\ [GraphNext]_graphVars => GraphInv'
    BY GraphInvStep
  <1>3. QED
    BY <1>1, <1>2, GraphInvInit, PTL DEF GraphSpec

(* A node whose parent is reported outdated is reported outdated.            *)
THEOREM GraphOutdatedClosed == GraphSpec => []OutdatedClosed
  <1>1. GraphInv => OutdatedClosed
    BY DEF GraphInv
  <1>2. QED
    BY <1>1, GraphInvariant, PTL

(* Up to date is only reported on readings that say so.                      *)
THEOREM GraphOkWasRead == GraphSpec => []OkWasRead
  <1>1. GraphInv => OkWasRead
    BY DEF GraphInv
  <1>2. QED
    BY <1>1, GraphInvariant, PTL

(* While the registry stands still a finished marking calls a node outdated  *)
(* exactly when it or an ancestor is missing or stale.                       *)
THEOREM GraphMarkingExact == GraphSpec => []MarkingExact
  <1>1. GraphSpec => []ExpandInv /\ []SortInv
    BY GraphExpands, ExpandInvariant, ExpandSorts, SortInvariant, PTL
  <1>2. GraphInit => MarkingInv
    BY DEF GraphInit, MarkInit, MarkingInv, ReadAsIs, JudgedExactly, Marked
  <1>3. ExpandInv /\ SortInv /\ GraphInv /\ MarkingInv /\ [GraphNext]_graphVars => MarkingInv'
    BY MarkingInvStep
  <1>4. ExpandInv /\ GraphInv /\ MarkingInv => MarkingExact
    BY MarkingIsExact
  <1>5. QED
    BY <1>1, <1>2, <1>3, <1>4, GraphInvariant, PTL DEF GraphSpec

(* No reading of a run is ever taken back or replaced.                       *)
THEOREM GraphOneReading == GraphSpec => OneReading
  <1> DEFINE Kept == \A r \in DOMAIN stats : r \in DOMAIN stats' /\ stats'[r] = stats[r]
  <1>1. ExpandInv /\ GraphInv /\ [GraphNext]_graphVars => [Kept]_graphVars
    <2> SUFFICES ASSUME ExpandInv, GraphInv, GraphNext
                 PROVE  Kept
      OBVIOUS
    <2>1. CASE StatTarget
      <3>1. mi \in DOMAIN nodes /\ stats' = Remember(Id(node))
        BY <2>1 DEF StatTarget, GraphInv, GraphTypeOK, ExpandInv, ExpandTypeOK
      <3>2. Id(node) \in Ref
        BY <3>1, NodeRefs DEF node
      <3>3. QED
        BY <3>1, <3>2, Remembered DEF GraphInv
    <2>2. CASE StatBase
      <3>1. mi \in DOMAIN nodes /\ stats' = Remember(node.base)
        BY <2>2 DEF StatBase, GraphInv, GraphTypeOK, MarkPlace, ExpandInv, ExpandTypeOK
      <3>2. node.base \in Ref
        BY <3>1, NodeRefs DEF node
      <3>3. QED
        BY <3>1, <3>2, Remembered DEF GraphInv
    <2>3. CASE stats' = stats
      BY <2>3
    <2>4. QED
      BY <2>1, <2>2, <2>3
         DEF GraphNext, Build, MarkNext, BeginMark, StatFails, EndMark, markVars
  <1>2. GraphSpec => []ExpandInv
    BY GraphExpands, ExpandInvariant, PTL
  <1>3. QED
    BY <1>1, <1>2, GraphInvariant, PTL DEF GraphSpec, OneReading
=============================================================================
