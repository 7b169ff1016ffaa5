---------------------------- MODULE BuildRunProofs ----------------------------
(***************************************************************************)
(* `clade build`, for all ports, registries and requests, and however      *)
(* others push to the registry during the run.                             *)
(***************************************************************************)
EXTENDS BuildRun, GraphProofs

(* What BuildRunInv rests on.                                                *)
Known == ExpandInv /\ SortInv /\ GraphInv

(* There is one next target, and all targets before it are built.            *)
LEMMA TargetIs ==
    ASSUME BuildRunTypeOK, Left # {}
    PROVE  /\ target \in Left /\ target \in DOMAIN nodes /\ target \in Nat
           /\ IsNext(target)
           /\ \A i : IsNext(i) => i = target
           /\ \A j \in targets : j < target => j \in built
  <1>1. Left \in SUBSET Nat /\ Left \subseteq DOMAIN nodes
    BY DEF BuildRunTypeOK, GraphTypeOK, ExpandTypeOK, Left
  <1>2. \E i \in Left : \A j \in Left : i <= j
    BY <1>1, LeastNatural
  <1>3. target \in Left /\ IsNext(target)
    BY <1>2 DEF target, IsNext
  <1>4. ASSUME NEW i, IsNext(i) PROVE i = target
    <2>1. i \in Left /\ i <= target /\ target <= i
      BY <1>3, <1>4 DEF IsNext
    <2>2. QED
      BY <1>1, <1>3, <2>1
  <1>5. ASSUME NEW j \in targets, j < target PROVE j \in built
    <2>1. ASSUME j \in Left PROVE FALSE
      <3>1. target <= j /\ j \in Nat /\ target \in Nat
        BY <1>1, <1>3, <2>1 DEF IsNext
      <3>2. QED
        BY <1>5, <3>1
    <2>2. QED
      BY <2>1 DEF Left
  <1>6. QED
    BY <1>1, <1>3, <1>4, <1>5

(* What Put changes.                                                         *)
LEMMA PutFacts ==
    ASSUME NEW r, NEW image, Put(r, image)
    PROVE  /\ \A s : s # r => Held(s)' = Held(s) /\ Lost(s)' = Lost(s)
           /\ Held(r)' = image
           /\ Lost(r)' = Lost(r) \cup {Held(r).digest}
           /\ DOMAIN past' = DOMAIN past \cup {r}
           /\ DOMAIN reg' = DOMAIN reg \cup {r}
           /\ \A s \in DOMAIN reg : s # r => reg'[s] = reg[s]
           /\ reg'[r] = image
  BY DEF Put, Held, Lost

(* Which node carries a reference.                                           *)
LEMMA RefFacts ==
    ASSUME ExpandInv, NEW i \in DOMAIN nodes
    PROVE  /\ RefsOf(nodes[i]) \subseteq Ref
           /\ Id(nodes[i]) \in RefsOf(nodes[i])
           /\ PushedRefs(i) \subseteq RefsOf(nodes[i])
           /\ i \in built => PushedRefs(i) = RefsOf(nodes[i])
           /\ \A j \in DOMAIN nodes : \A r : r \in RefsOf(nodes[i]) /\ r \in RefsOf(nodes[j]) => i = j
           /\ \A x \in DOMAIN nodes[i].tags :
                 RefOf(ports[nodes[i].port].repo, nodes[i].tags[x]) \in RefsOf(nodes[i])
  <1>1. /\ nodes[i].tags \in Seq(Tag) /\ nodes[i].tags # << >>
        /\ ports[nodes[i].port].repo \in Repos
    <2>1. nodes[i] \in Node /\ nodes[i].port \in Idx
      BY NodeRefs
    <2>2. QED
      BY <2>1, PortTypes DEF Node, ExpandInv, NodeShape, ExpandTypeOK, SortTypeOK
  <1>2. RefsOf(nodes[i]) \subseteq Ref
    BY <1>1 DEF RefsOf, RefOf, Ref
  <1>3. Id(nodes[i]) \in RefsOf(nodes[i])
    <2>1. 1 \in DOMAIN nodes[i].tags
      BY <1>1
    <2>2. QED
      BY <2>1 DEF RefsOf, Id
  <1>4. PushedRefs(i) \subseteq RefsOf(nodes[i])
    BY DEF PushedRefs, RefsOf
  <1>5. i \in built => PushedRefs(i) = RefsOf(nodes[i])
    BY DEF PushedRefs, RefsOf
  <1>6. \A j \in DOMAIN nodes : \A r : r \in RefsOf(nodes[i]) /\ r \in RefsOf(nodes[j]) => i = j
    BY DEF ExpandInv, UniqueOwner
  <1>7. \A x \in DOMAIN nodes[i].tags :
           RefOf(ports[nodes[i].port].repo, nodes[i].tags[x]) \in RefsOf(nodes[i])
    BY DEF RefsOf
  <1>8. QED
    BY <1>2, <1>3, <1>4, <1>5, <1>6, <1>7

(* Which refs are pushed depends on what is built and how many tags are.     *)
LEMMA SamePushed ==
    ASSUME UNCHANGED << ports, nodes, built, tagged >>
    PROVE  \A i : PushedRefs(i)' = PushedRefs(i)
  BY DEF PushedRefs, RefOf

(* What was judged is judged the same as long as the registry is the same.   *)
LEMMA SameVerdicts ==
    ASSUME UNCHANGED << ports, nodes >>
    PROVE  /\ \A i : Lineage(i)' = Lineage(i)
           /\ \A ch, a, b : Stale(ch, a, b)' = Stale(ch, a, b)
           /\ \A i : ChainOf(nodes[i])' = ChainOf(nodes[i]) /\ Id(nodes[i])' = Id(nodes[i])
           /\ \A i : RefsOf(nodes[i])' = RefsOf(nodes[i])
  <1>1. \A i : Lineage(i)' = Lineage(i)
    BY DEF Lineage
  <1>2. QED
    BY <1>1 DEF Stale, ChainSays, Says, ChainOf, Id, RefsOf, RefOf

(* An invariant of what the run did is kept when nothing of it changes.      *)
LEMMA AllTheSame ==
    ASSUME BuildRunInv, GraphTypeOK', UNCHANGED << graphVars, runVars >>
    PROVE  BuildRunInv'
  <1>1. /\ UNCHANGED << ports, nodes, owner, mark, mi, stats, outdated, reg, cached, moves >>
        /\ UNCHANGED << bpc, req, targets, built, label, tagged, clock, made, late, past, due >>
    BY DEF graphVars, expandVars, sortVars, nodesVars, markVars, envVars, runVars
  <1>2. Left' = Left /\ target' = target /\ base' = base /\ HasBase' = HasBase
    BY <1>1 DEF Left, target, IsNext, base, HasBase
  <1>3. /\ \A r : Held(r)' = Held(r) /\ Lost(r)' = Lost(r)
        /\ \A i : ImageOf(i)' = ImageOf(i) /\ IsNext(i)' = IsNext(i)
    BY <1>1, <1>2 DEF Held, Lost, ImageOf, IsNext
  <1>4. \A i : Due(i)' = Due(i) /\ Untouched(i)' = Untouched(i)
    BY <1>1, <1>3, SameVerdicts DEF Due, Untouched
  <1>5. BuildRunTypeOK'
    BY <1>1 DEF BuildRunInv, BuildRunTypeOK
  <1>6. InOrder' /\ RunPlace' /\ Begun' /\ TargetsClosed'
    BY <1>1, <1>2, <1>3 DEF BuildRunInv, InOrder, RunPlace, Begun, NotBegun, TargetsClosed
  <1>7. PushesShow'
    BY <1>1, <1>3, SamePushed DEF BuildRunInv, PushesShow
  <1>8. LabelKnown' /\ Recorded' /\ BuiltOnRebuilt'
    BY <1>1, <1>2, <1>3 DEF BuildRunInv, LabelKnown, Recorded, BuiltOnRebuilt
  <1>9. DueStands'
    BY <1>1, <1>4 DEF BuildRunInv, DueStands
  <1>10. Undisturbed'
    BY <1>1, <1>2, <1>3, SamePushed DEF BuildRunInv, Undisturbed, Earlier
  <1>11. BasesStand'
    BY <1>1, <1>3 DEF BuildRunInv, BasesStand, Ordinary, Idx
  <1>12. QED
    BY <1>5, <1>6, <1>7, <1>8, <1>9, <1>10, <1>11 DEF BuildRunInv
-----------------------------------------------------------------------------
(* Steps that move the run on without touching what it did.                  *)
History == << targets, built, tagged, clock, made, late, past, due >>

LEMMA MovesOn ==
    ASSUME Known, BuildRunInv, UNCHANGED graphVars, UNCHANGED History,
           bpc' \in {"graph", "failed"} \/ bpc \notin {"graph", "failed"},
           BuildRunTypeOK', InOrder', RunPlace', Begun', TargetsClosed', LabelKnown',
           (moves = 0 /\ bpc' = "docker") =>
              label' \in {NoDigest} \cup IF HasBase THEN {Held(base).digest} ELSE {}
    PROVE  BuildRunInv'
  <1>1. /\ UNCHANGED << ports, nodes, owner, mark, mi, stats, outdated, reg, cached, moves >>
        /\ UNCHANGED << targets, built, tagged, clock, made, late, past, due >>
    BY DEF graphVars, expandVars, sortVars, nodesVars, markVars, envVars, History
  <1>2. Left' = Left /\ target' = target /\ base' = base /\ HasBase' = HasBase
    BY <1>1 DEF Left, target, IsNext, base, HasBase
  <1>3. /\ \A r : Held(r)' = Held(r) /\ Lost(r)' = Lost(r)
        /\ \A i : ImageOf(i)' = ImageOf(i)
    BY <1>1 DEF Held, Lost, ImageOf
  <1>4. \A i : Due(i)' = Due(i) /\ Untouched(i)' = Untouched(i)
    BY <1>1, <1>3, SameVerdicts DEF Due, Untouched
  <1>5. PushesShow'
    BY <1>1, <1>3, SamePushed DEF BuildRunInv, PushesShow
  <1>6. Recorded' /\ BuiltOnRebuilt'
    BY <1>1, <1>3 DEF BuildRunInv, Recorded, BuiltOnRebuilt
  <1>7. DueStands'
    BY <1>1, <1>4 DEF BuildRunInv, DueStands
  <1>8. Undisturbed'
    BY <1>1, <1>2, <1>3, SamePushed DEF BuildRunInv, Undisturbed, Earlier
  <1>9. BasesStand'
    BY <1>1, <1>3 DEF BuildRunInv, BasesStand, Ordinary, Idx
  <1>10. QED
    BY <1>5, <1>6, <1>7, <1>8, <1>9 DEF BuildRunInv

LEMMA InvEnds ==
    ASSUME Known, GraphTypeOK', BuildRunInv, UNCHANGED graphVars,
           UnknownNode \/ NoGraph \/ SpecFails \/ DockerFails \/ RunEnds
    PROVE  BuildRunInv'
  <1>1. /\ UNCHANGED << ports, nodes, owner, mark, mi, stats, outdated, reg, cached, moves >>
        /\ UNCHANGED << targets, built, label, tagged, clock, made, late, past, due >>
        /\ req' = req \/ (bpc = "graph" /\ req' \in Requests)
        /\ bpc' = "failed" \/ (bpc' = "done" /\ bpc = "next" /\ Left = {} /\ req' = req)
    BY DEF UnknownNode, NoGraph, SpecFails, DockerFails, RunEnds,
           graphVars, expandVars, sortVars, nodesVars, markVars, envVars
  <1>2. Left' = Left /\ \A i : IsNext(i)' = IsNext(i)
    BY <1>1 DEF Left, IsNext
  <1>3. BuildRunTypeOK'
    BY <1>1 DEF BuildRunInv, BuildRunTypeOK
  <1>4. bpc = "graph" => NotBegun /\ built = {}
    BY DEF BuildRunInv, Begun, NotBegun, BuildRunTypeOK
  <1>5. InOrder'
    BY <1>1, <1>2, <1>4 DEF BuildRunInv, InOrder, NotBegun
  <1>6. RunPlace'
    BY <1>1, <1>2 DEF BuildRunInv, RunPlace, BuildRunTypeOK, Left
  <1>7. Begun'
    BY <1>1, <1>4 DEF BuildRunInv, Begun, NotBegun, RunPlace,
                      UnknownNode, NoGraph, SpecFails, DockerFails, RunEnds
  <1>8. TargetsClosed' /\ LabelKnown'
    BY <1>1 DEF BuildRunInv, TargetsClosed, LabelKnown
  <1>9. QED
    BY <1>1, <1>3, <1>5, <1>6, <1>7, <1>8, MovesOn DEF History

(* The base of a target whose parent was built before is what was pushed for *)
(* the parent, or over it.                                                   *)
LEMMA BaseOfBuilt ==
    ASSUME Known, BuildRunTypeOK, PushesShow, NEW i \in DOMAIN nodes,
           nodes[i].parent \in built \cap DOMAIN made
    PROVE  Held(nodes[i].base).digest \in {made[nodes[i].parent].digest} \cup late
  <1> DEFINE p == nodes[i].parent
  <1>1. p \in DOMAIN nodes /\ p # 0
    BY DEF BuildRunTypeOK, Known, ExpandInv, ExpandTypeOK
  <1>2. nodes[i].base \in RefsOf(nodes[p])
    BY <1>1 DEF Known, ExpandInv, ParentFirst
  <1>3. nodes[i].base \in PushedRefs(p)
    BY <1>1, <1>2, RefFacts DEF Known
  <1>4. QED
    BY <1>3 DEF PushesShow

LEMMA InvSpec ==
    ASSUME Known, GraphTypeOK', BuildRunInv, UNCHANGED graphVars, Spec
    PROVE  BuildRunInv'
  <1>1. /\ UNCHANGED << ports, nodes, owner, mark, mi, stats, outdated, reg, cached, moves >>
        /\ UNCHANGED << req, targets, built, tagged, clock, made, late, past, due >>
        /\ bpc = "next" /\ bpc' = "docker" /\ Left # {}
        /\ label' \in {NoDigest} \cup IF HasBase THEN {Held(base).digest} ELSE {}
    BY DEF Spec, LookedUp, graphVars, expandVars, sortVars, nodesVars, markVars, envVars
  <1>2. Left' = Left /\ target' = target /\ base' = base /\ HasBase' = HasBase
        /\ \A i : IsNext(i)' = IsNext(i)
    BY <1>1 DEF Left, target, IsNext, base, HasBase
  <1>3. target \in DOMAIN nodes
    BY <1>1, TargetIs DEF BuildRunInv
  <1>4. Held(base).digest \in Digests \cup {NoDigest}
    BY DEF Known, GraphInv, GraphTypeOK, Held, Image, Missing
  <1>5. BuildRunTypeOK'
    BY <1>1, <1>4 DEF BuildRunInv, BuildRunTypeOK
  <1>6. InOrder' /\ RunPlace' /\ Begun' /\ TargetsClosed'
    BY <1>1, <1>2 DEF BuildRunInv, InOrder, RunPlace, Begun, NotBegun, TargetsClosed
  <1>7. LabelKnown'
    <2>1. \A r : Held(r)' = Held(r) /\ Lost(r)' = Lost(r)
      BY <1>1 DEF Held, Lost
    <2>2. nodes[target].parent \in built \cap DOMAIN made =>
             label' \in {made[nodes[target].parent].digest, NoDigest} \cup late
      BY <1>1, <1>3, BaseOfBuilt DEF BuildRunInv, base
    <2>3. QED
      BY <1>1, <1>2, <2>1, <2>2 DEF LabelKnown
  <1>8. QED
    BY <1>1, <1>5, <1>6, <1>7, MovesOn DEF History

LEMMA InvSelect ==
    ASSUME Known, GraphTypeOK', BuildRunInv, UNCHANGED graphVars, Select
    PROVE  BuildRunInv'
  <1>1. /\ UNCHANGED << ports, nodes, owner, mark, mi, stats, outdated, reg, cached, moves >>
        /\ UNCHANGED << built, label, tagged, clock, made, late, past >>
        /\ bpc = "graph" /\ bpc' = "next" /\ mark = "done"
        /\ req' \in Requests /\ targets' = Chosen(req')
        /\ due' = {i \in DOMAIN nodes : Due(i)}
    BY DEF Select, graphVars, expandVars, sortVars, nodesVars, markVars, envVars
  <1>2. NotBegun /\ built = {} /\ tagged = 0
    BY <1>1 DEF BuildRunInv, Begun, NotBegun, BuildRunTypeOK, RunPlace
  <1>3. BuildRunTypeOK'
    BY <1>1, <1>2 DEF BuildRunInv, BuildRunTypeOK, Chosen
  <1>4. InOrder' /\ RunPlace' /\ Begun'
    BY <1>1, <1>2 DEF BuildRunInv, InOrder, RunPlace, Begun, NotBegun
  <1>5. TargetsClosed'
    <2>1. Marked = DOMAIN nodes
      BY <1>1 DEF BuildRunInv, Begun, Marked, Known, ExpandInv, ExpandTypeOK
    <2> SUFFICES ASSUME req'.ids = {}, NEW i \in DOMAIN nodes, nodes[i].parent \in targets'
                 PROVE  i \in targets'
      BY <1>1 DEF TargetsClosed
    <2>2. nodes[i].parent \in DOMAIN nodes /\ nodes[i].parent # 0
      BY <1>1 DEF Chosen, Known, ExpandInv, ExpandTypeOK
    <2>3. outdated[nodes[i].parent] => outdated[i]
      BY <2>1, <2>2 DEF Known, GraphInv, OutdatedClosed
    <2>4. QED
      BY <1>1, <2>2, <2>3 DEF Chosen
  <1>6. PushesShow' /\ LabelKnown' /\ Recorded' /\ BuiltOnRebuilt' /\ BasesStand'
    BY <1>1, <1>2 DEF BuildRunInv, NotBegun, PushesShow, LabelKnown, Recorded, BuiltOnRebuilt, BasesStand
  <1>7. DueStands'
    <2>1. \A r : Held(r)' = Held(r)
      BY <1>1 DEF Held
    <2>2. \A i : Due(i)' = Due(i)
      BY <1>1, <2>1, SameVerdicts DEF Due
    <2>3. QED
      BY <1>1, <2>2 DEF DueStands
  <1>8. Undisturbed'
    BY <1>1, <1>2 DEF BuildRunInv, Undisturbed, NotBegun, Earlier
  <1>9. QED
    BY <1>3, <1>4, <1>5, <1>6, <1>7, <1>8 DEF BuildRunInv

(* A base some node of the run carries has a name.                           *)
LEMMA ParentIsBase ==
    ASSUME Known, NEW i \in DOMAIN nodes, nodes[i].parent \in DOMAIN nodes
    PROVE  /\ nodes[i].parent < i /\ nodes[i].parent \in Nat
           /\ nodes[i].base \in RefsOf(nodes[nodes[i].parent])
           /\ nodes[i].base.repo \in Repos /\ nodes[i].base.repo # NoRepo
  <1> DEFINE p == nodes[i].parent
  <1>1. p # 0 /\ p \in Nat
    BY DEF Known, ExpandInv, ExpandTypeOK
  <1>2. p < i /\ nodes[i].base \in RefsOf(nodes[p])
    BY <1>1 DEF Known, ExpandInv, ParentFirst
  <1>3. nodes[p].port \in Idx
    BY NodeRefs DEF Known
  <1>4. ports[nodes[p].port].repo \in Repos
    BY <1>3, PortTypes DEF Known, ExpandInv, ExpandTypeOK, SortTypeOK
  <1>5. NoRepo \notin Repos
    BY PortsAssumption
  <1>6. QED
    BY <1>1, <1>2, <1>4, <1>5 DEF RefsOf, RefOf

LEMMA HeldTypes ==
    ASSUME GraphInv
    PROVE  \A r : Held(r) \in Image \cup {Missing} /\ Held(r).digest \in Digests \cup {NoDigest}
                  /\ Held(r).created \in Nat
  BY DEF GraphInv, GraphTypeOK, Held, Image, Missing

(* docker builds the next target on what its base is.                        *)
LEMMA InvDocker ==
    ASSUME Known, GraphTypeOK', BuildRunInv, UNCHANGED graphVars, Docker
    PROVE  BuildRunInv'
  <1>0. PICK t : t = target
    OBVIOUS
  <1> DEFINE new == [digest |-> Fresh, created |-> clock, label |-> label,
                     from |-> IF HasBase THEN Held(base).digest ELSE NoDigest]
  <1>1. /\ UNCHANGED << ports, nodes, owner, mark, mi, stats, outdated, reg, cached, moves >>
        /\ UNCHANGED << req, targets, built, label, late, past, due >>
        /\ bpc = "docker" /\ bpc' = "push" /\ req.push /\ clock' = clock + 1 /\ tagged' = 0
        /\ made' = [i \in DOMAIN made \cup {t} |-> IF i = t THEN new ELSE made[i]]
        /\ HasBase => Held(base) # Missing
        /\ Unused # {}
    BY <1>0 DEF Docker, graphVars, expandVars, sortVars, nodesVars, markVars, envVars
  <1>2. Left # {} /\ tagged = 0 /\ mark = "done" /\ DOMAIN made \subseteq built /\ built \subseteq DOMAIN made
    BY <1>1 DEF BuildRunInv, RunPlace, InOrder
  <1>3. /\ t \in Left /\ t \in DOMAIN nodes /\ t \in targets /\ t \notin built
        /\ IsNext(t) /\ \A j \in targets : j < t => j \in built
    BY <1>0, <1>2, TargetIs DEF BuildRunInv, Left
  <1>4. /\ Left' = Left /\ target' = t /\ base' = base /\ HasBase' = HasBase
        /\ \A i : IsNext(i)' = IsNext(i)
    BY <1>0, <1>1 DEF Left, target, IsNext, base, HasBase
  <1>5. /\ DOMAIN made' = built \cup {t} /\ made'[t] = new
        /\ \A i \in built : made'[i] = made[i]
    BY <1>1, <1>2, <1>3
  <1>6. /\ \A r : Held(r)' = Held(r) /\ Lost(r)' = Lost(r)
        /\ \A i \in built : ImageOf(i)' = ImageOf(i)
        /\ \A i \in built : PushedRefs(i)' = PushedRefs(i)
        /\ PushedRefs(t)' = {}
    <2>1. \A r : Held(r)' = Held(r) /\ Lost(r)' = Lost(r)
      BY <1>1 DEF Held, Lost
    <2>2. \A i \in built : ImageOf(i)' = ImageOf(i)
      BY <1>1, <1>5 DEF ImageOf
    <2>3. \A i \in built : PushedRefs(i)' = PushedRefs(i)
      BY <1>1, <1>2, SamePushed
    <2>4. PushedRefs(t)' = {}
      <3>1. nodes[t].tags \in Seq(Tag)
        BY <1>3, NodeRefs DEF Known, Node
      <3>2. \A y \in DOMAIN nodes[t].tags : ~(y <= 0)
        BY <3>1
      <3>3. {y \in DOMAIN nodes[t].tags : t \in built \/ y <= 0} = {}
        BY <1>3, <3>2
      <3>4. PushedRefs(t)' = {RefOf(ports[nodes[t].port].repo, nodes[t].tags[x]) :
                                x \in {y \in DOMAIN nodes[t].tags : t \in built \/ y <= 0}}
        BY <1>1 DEF PushedRefs, RefOf
      <3>5. QED
        BY <3>3, <3>4
    <2>5. QED
      BY <2>1, <2>2, <2>3, <2>4
  <1>7. new \in Made
    <2>1. Fresh \in NewDigests
      BY <1>1 DEF Fresh, Unused
    <2>2. label \in Digests \cup {NoDigest} /\ clock \in Nat
      BY DEF BuildRunInv, BuildRunTypeOK
    <2>3. new.from \in Digests \cup {NoDigest}
      BY HeldTypes DEF Known
    <2>4. QED
      BY <2>1, <2>2, <2>3 DEF Made
  <1>8. BuildRunTypeOK'
    <2>1. made' \in [DOMAIN made' -> Made']
      BY <1>1, <1>7 DEF BuildRunInv, BuildRunTypeOK, Made
    <2>2. QED
      BY <1>1, <2>1 DEF BuildRunInv, BuildRunTypeOK
  <1>9. InOrder' /\ RunPlace' /\ Begun' /\ TargetsClosed'
    BY <1>1, <1>2, <1>3, <1>4, <1>5
       DEF BuildRunInv, InOrder, RunPlace, Begun, NotBegun, TargetsClosed
  <1>10. PushesShow'
    <2> SUFFICES ASSUME NEW i \in built \cup {t}, NEW r \in PushedRefs(i)'
                 PROVE  r \in DOMAIN past /\ Held(r).digest \in {made'[i].digest} \cup late
      BY <1>1, <1>5, <1>6 DEF PushesShow
    <2>1. i \in built /\ r \in PushedRefs(i) /\ made'[i] = made[i]
      <3>1. i # t
        BY <1>6
      <3>2. QED
        BY <3>1, <1>5, <1>6
    <2>2. QED
      BY <1>2, <2>1 DEF BuildRunInv, PushesShow
  <1>11. LabelKnown'
    BY <1>1 DEF LabelKnown
  <1>12. Recorded'
    <2>1. \A i \in built : /\ made'[i].label \in {NoDigest, made'[i].from} \cup Lost(nodes[i].base)
                           /\ Now <= made'[i].created /\ made'[i].created < clock
      BY <1>2, <1>5 DEF BuildRunInv, Recorded
    <2>2. new.label \in {NoDigest, new.from} \cup Lost(nodes[t].base)
      BY <1>0, <1>1 DEF BuildRunInv, LabelKnown, base
    <2>3. clock \in Nat /\ Now \in Nat /\ Now <= clock
      BY BuildAssumption DEF BuildRunInv, BuildRunTypeOK, Recorded
    <2>4. \A i \in built : made'[i].created \in Nat
      BY <1>2, <1>5 DEF BuildRunInv, BuildRunTypeOK, Made
    <2>5. \A i \in built : made'[i].created < clock + 1
      BY <2>1, <2>3, <2>4
    <2>6. QED
      <3>1. \A i \in built \cup {t} :
               /\ made'[i].label \in {NoDigest, made'[i].from} \cup Lost(nodes[i].base)
               /\ Now <= made'[i].created /\ made'[i].created < clock + 1
        BY <1>5, <2>1, <2>2, <2>3, <2>5
      <3>2. Now <= clock + 1
        BY <2>3
      <3>3. QED
        BY <1>1, <1>5, <1>6, <3>1, <3>2 DEF Recorded
  <1>13. BuiltOnRebuilt'
    <2>1. ASSUME NEW i \in built, nodes[i].parent \in targets
          PROVE  LET p == nodes[i].parent
                 IN  /\ p \in built /\ made'[i].from \in {made'[p].digest} \cup late
                     /\ made'[i].label \in {made'[p].digest, NoDigest} \cup late
      BY <1>2, <1>5, <2>1 DEF BuildRunInv, BuiltOnRebuilt
    <2>2. ASSUME nodes[t].parent \in targets
          PROVE  LET p == nodes[t].parent
                 IN  /\ p \in built /\ new.from \in {made'[p].digest} \cup late
                     /\ new.label \in {made'[p].digest, NoDigest} \cup late
      <3> DEFINE p == nodes[t].parent
      <3>1. p \in DOMAIN nodes
        BY <2>2 DEF BuildRunInv, BuildRunTypeOK
      <3>2. p < t /\ HasBase
        BY <1>0, <1>3, <3>1, ParentIsBase DEF HasBase, base
      <3>3. p \in built
        BY <1>3, <2>2, <3>2
      <3>4. new.from \in {made[p].digest} \cup late
        BY <1>0, <1>2, <1>3, <3>2, <3>3, BaseOfBuilt DEF BuildRunInv, base
      <3>5. new.label \in {made[p].digest, NoDigest} \cup late
        BY <1>0, <1>1, <1>2, <3>3 DEF BuildRunInv, LabelKnown
      <3>6. QED
        BY <1>5, <3>3, <3>4, <3>5
    <2>3. QED
      BY <1>1, <1>5, <2>1, <2>2 DEF BuiltOnRebuilt
  <1>14. DueStands'
    <2>1. \A i : Due(i)' = Due(i) /\ Untouched(i)' = Untouched(i)
      BY <1>1, <1>6, SameVerdicts DEF Due, Untouched
    <2>2. QED
      BY <1>1, <2>1 DEF BuildRunInv, DueStands
  <1>15. Undisturbed'
    <2> SUFFICES ASSUME moves = 0
                 PROVE  /\ \A r \in DOMAIN past : \E i \in built \cup {t} :
                              r \in PushedRefs(i)' /\ Held(r) = ImageOf(i)'
                        /\ \A r \in DOMAIN reg \ DOMAIN past : reg[r].created < Now /\ Earlier(reg[r])
      BY <1>1, <1>5, <1>6 DEF Undisturbed, Earlier
    <2>1. \A r \in DOMAIN past : \E i \in built : r \in PushedRefs(i) /\ Held(r) = ImageOf(i)
      BY <1>2 DEF BuildRunInv, Undisturbed
    <2>2. QED
      BY <1>6, <2>1 DEF BuildRunInv, Undisturbed
  <1>16. BasesStand'
    <2> SUFFICES ASSUME moves = 0, Ordinary, NEW i \in built \cup {t}, nodes[i].base.repo # NoRepo
                 PROVE  LET image == Held(nodes[i].base)
                        IN  /\ image # Missing /\ image.created < made'[i].created
                            /\ made'[i].label \in {NoDigest, image.digest}
      BY <1>1, <1>5, <1>6 DEF BasesStand, Ordinary, Idx
    <2>1. CASE i \in built
      BY <1>2, <1>5, <2>1 DEF BuildRunInv, BasesStand
    <2>2. CASE i = t
      <3>1. HasBase /\ Held(base) # Missing /\ nodes[i].base = base
        BY <1>0, <1>1, <2>2 DEF HasBase, base
      <3>2. label \in {NoDigest, Held(base).digest}
        BY <1>1, <3>1 DEF BuildRunInv, Undisturbed
      <3>3. Held(base).created < clock
        <4>1. clock \in Nat /\ Now \in Nat /\ Now <= clock /\ Held(base).created \in Nat
          BY BuildAssumption, HeldTypes DEF BuildRunInv, BuildRunTypeOK, Recorded, Known
        <4>2. CASE base \in DOMAIN past
          <5>1. PICK k \in DOMAIN made : Held(base) = ImageOf(k)
            BY <4>2 DEF BuildRunInv, Undisturbed
          <5>2. QED
            BY <5>1 DEF ImageOf, BuildRunInv, Recorded
        <4>3. CASE base \notin DOMAIN past
          <5>1. base \in DOMAIN reg /\ Held(base) = reg[base]
            BY <3>1 DEF Held
          <5>2. Held(base).created < Now
            BY <4>3, <5>1 DEF BuildRunInv, Undisturbed
          <5>3. QED
            BY <4>1, <5>2
        <4>4. QED
          BY <4>2, <4>3
      <3>4. QED
        BY <1>5, <2>2, <3>1, <3>2, <3>3
    <2>3. QED
      BY <2>1, <2>2
  <1>17. QED
    BY <1>8, <1>9, <1>10, <1>11, <1>12, <1>13, <1>14, <1>15, <1>16 DEF BuildRunInv

(* Nothing is recorded of a run that does not push.                          *)
LEMMA InvDockerOnly ==
    ASSUME Known, GraphTypeOK', BuildRunInv, UNCHANGED graphVars, DockerOnly
    PROVE  BuildRunInv'
  <1>1. /\ UNCHANGED << ports, nodes, owner, mark, mi, stats, outdated, reg, cached, moves >>
        /\ UNCHANGED << req, targets, label, tagged, clock, made, late, past, due >>
        /\ bpc = "docker" /\ bpc' = "next" /\ ~req.push /\ built' = built \cup {target}
    BY DEF DockerOnly, graphVars, expandVars, sortVars, nodesVars, markVars, envVars
  <1>2. Left # {} /\ tagged = 0 /\ mark = "done" /\ made = << >>
    BY <1>1 DEF BuildRunInv, RunPlace, InOrder
  <1>3. target \in targets /\ \A j \in targets : j < target => j \in built
    BY <1>2, TargetIs DEF BuildRunInv, Left
  <1>4. /\ \A r : Held(r)' = Held(r) /\ Lost(r)' = Lost(r)
        /\ \A i : Due(i)' = Due(i) /\ Untouched(i)' = Untouched(i)
    BY <1>1, SameVerdicts DEF Due, Untouched, Held, Lost
  <1>5. BuildRunTypeOK' /\ InOrder' /\ RunPlace' /\ Begun' /\ TargetsClosed'
    BY <1>1, <1>2, <1>3 DEF BuildRunInv, BuildRunTypeOK, InOrder, RunPlace, Begun, NotBegun,
                            TargetsClosed
  <1>6. PushesShow' /\ LabelKnown' /\ Recorded' /\ BuiltOnRebuilt' /\ BasesStand'
    BY <1>1, <1>2 DEF BuildRunInv, PushesShow, LabelKnown, Recorded, BuiltOnRebuilt, BasesStand
  <1>7. DueStands'
    BY <1>1, <1>4 DEF BuildRunInv, DueStands
  <1>8. Undisturbed'
    BY <1>1, <1>2 DEF BuildRunInv, Undisturbed, Earlier
  <1>9. QED
    BY <1>5, <1>6, <1>7, <1>8 DEF BuildRunInv

(* What is built is built already, but for the target that is being pushed.  *)
LEMMA BuiltOrTarget ==
    ASSUME Known, BuildRunTypeOK, InOrder, RunPlace, bpc = "push"
    PROVE  /\ target \in DOMAIN made /\ target \in targets /\ target \notin built
           /\ target \in DOMAIN nodes
           /\ \A j \in targets : j < target => j \in built
           /\ \A i \in DOMAIN made : i \in built \/ i = target
           /\ nodes[target].tags \in Seq(Tag)
  <1>1. Left # {} /\ target \in DOMAIN made
    BY DEF RunPlace
  <1>2. /\ target \in Left /\ target \in DOMAIN nodes /\ \A i : IsNext(i) => i = target
        /\ \A j \in targets : j < target => j \in built
    BY <1>1, TargetIs
  <1>3. \A i \in DOMAIN made : i \in built \/ i = target
    BY <1>2 DEF InOrder
  <1>4. nodes[target].tags \in Seq(Tag)
    BY <1>2, NodeRefs DEF Known, Node
  <1>5. QED
    BY <1>1, <1>2, <1>3, <1>4 DEF Left

LEMMA InvPushEnds ==
    ASSUME Known, GraphTypeOK', BuildRunInv, UNCHANGED graphVars, PushEnds
    PROVE  BuildRunInv'
  <1>0. PICK t : t = target
    OBVIOUS
  <1>1. /\ UNCHANGED << ports, nodes, owner, mark, mi, stats, outdated, reg, cached, moves >>
        /\ UNCHANGED << req, targets, label, clock, made, late, past, due >>
        /\ bpc = "push" /\ bpc' = "next" /\ built' = built \cup {t}
        /\ tagged = Len(nodes[t].tags) /\ tagged' = 0
    BY <1>0 DEF PushEnds, AllPushed, graphVars, expandVars, sortVars, nodesVars, markVars, envVars
  <1>2. /\ t \in DOMAIN made /\ t \in targets /\ t \in DOMAIN nodes
        /\ \A j \in targets : j < t => j \in built
        /\ \A i \in DOMAIN made : i \in built \/ i = t
        /\ nodes[t].tags \in Seq(Tag) /\ mark = "done"
    BY <1>0, <1>1, BuiltOrTarget DEF BuildRunInv, RunPlace
  <1>3. /\ \A r : Held(r)' = Held(r) /\ Lost(r)' = Lost(r)
        /\ \A i : Due(i)' = Due(i) /\ Untouched(i)' = Untouched(i)
        /\ \A i : ImageOf(i)' = ImageOf(i)
    BY <1>1, SameVerdicts DEF Due, Untouched, Held, Lost, ImageOf
  <1>4. \A i \in DOMAIN made : PushedRefs(i)' = PushedRefs(i)
    <2> SUFFICES ASSUME NEW i \in DOMAIN made PROVE PushedRefs(i)' = PushedRefs(i)
      OBVIOUS
    <2>1. {y \in DOMAIN nodes[i].tags : i \in built \/ y <= tagged} = DOMAIN nodes[i].tags
      <3>1. CASE i \in built
        BY <3>1
      <3>2. CASE i = t
        BY <1>1, <1>2, <3>2
      <3>3. QED
        BY <1>2, <3>1, <3>2
    <2>2. i \in built'
      BY <1>1, <1>2
    <2>3. PushedRefs(i)' = {RefOf(ports[nodes[i].port].repo, nodes[i].tags[x]) :
                               x \in DOMAIN nodes[i].tags}
      BY <1>1, <2>2 DEF PushedRefs, RefOf
    <2>4. QED
      BY <2>1, <2>3 DEF PushedRefs
  <1>5. BuildRunTypeOK' /\ InOrder' /\ RunPlace' /\ Begun' /\ TargetsClosed'
    BY <1>1, <1>2 DEF BuildRunInv, BuildRunTypeOK, InOrder, RunPlace, Begun, NotBegun,
                      TargetsClosed
  <1>6. PushesShow'
    BY <1>1, <1>3, <1>4 DEF BuildRunInv, PushesShow
  <1>7. LabelKnown' /\ Recorded'
    BY <1>1, <1>3 DEF BuildRunInv, LabelKnown, Recorded
  <1>8. BuiltOnRebuilt'
    BY <1>1 DEF BuildRunInv, BuiltOnRebuilt
  <1>9. DueStands'
    BY <1>1, <1>3 DEF BuildRunInv, DueStands
  <1>10. Undisturbed'
    BY <1>1, <1>3, <1>4 DEF BuildRunInv, Undisturbed, Earlier
  <1>11. BasesStand'
    BY <1>1, <1>3 DEF BuildRunInv, BasesStand, Ordinary, Idx
  <1>12. QED
    BY <1>5, <1>6, <1>7, <1>8, <1>9, <1>10, <1>11 DEF BuildRunInv
-----------------------------------------------------------------------------
(* A push leaves the verdict of a node alone that was not judged by it.      *)
LEMMA PutLeaves ==
    ASSUME NEW r, NEW image, Put(r, image), UNCHANGED << ports, nodes >>, NEW i,
           Untouched(i)'
    PROVE  Untouched(i) /\ Due(i)' = Due(i)
  <1>1. Lineage(i)' = Lineage(i) /\ DOMAIN past \subseteq DOMAIN past' /\ r \in DOMAIN past'
    <2>1. Lineage(i)' = Lineage(i)
      BY SameVerdicts
    <2>2. DOMAIN past' = DOMAIN past \cup {r}
      BY PutFacts
    <2>3. QED
      BY <2>1, <2>2
  <1>2. ASSUME NEW k \in Lineage(i)
        PROVE  /\ Id(nodes[k]) \notin DOMAIN past' /\ nodes[k].base \notin DOMAIN past'
               /\ Held(Id(nodes[k]))' = Held(Id(nodes[k])) /\ Held(nodes[k].base)' = Held(nodes[k].base)
    <2>1. Id(nodes[k]) \notin DOMAIN past' /\ nodes[k].base \notin DOMAIN past'
      BY <1>1, SameVerdicts DEF Untouched, Id, RefOf
    <2>2. Id(nodes[k])' = Id(nodes[k])
      BY DEF Id, RefOf
    <2>3. QED
      BY <1>1, <2>1, <2>2, PutFacts
  <1>3. Untouched(i)
    BY <1>1, <1>2 DEF Untouched
  <1>4. Due(i)' = Due(i)
    <2>1. \A k \in Lineage(i) : Stale(ChainOf(nodes[k]), Held(Id(nodes[k])), Held(nodes[k].base))'
                              = Stale(ChainOf(nodes[k]), Held(Id(nodes[k])), Held(nodes[k].base))
      BY <1>2, SameVerdicts DEF Stale, ChainSays, Says
    <2>2. QED
      BY <1>1, <2>1 DEF Due
  <1>5. QED
    BY <1>3, <1>4

LEMMA PastTypes ==
    ASSUME GraphInv, BuildRunTypeOK, NEW r \in Ref, NEW image, Put(r, image)
    PROVE  /\ DOMAIN past' \subseteq Ref
           /\ past' \in [DOMAIN past' -> SUBSET (Digests \cup {NoDigest})]
  <1>1. Held(r).digest \in Digests \cup {NoDigest}
    BY HeldTypes
  <1>2. Lost(r) \subseteq Digests \cup {NoDigest}
    BY DEF BuildRunTypeOK, Lost
  <1>3. QED
    BY <1>1, <1>2 DEF Put, BuildRunTypeOK

LEMMA InvPushTag ==
    ASSUME Known, GraphTypeOK', BuildRunInv, PushTag,
           UNCHANGED << expandVars, markVars >>
    PROVE  BuildRunInv'
  <1>0. PICK t : t = target
    OBVIOUS
  <1>1. PICK ref : ref = RefOf(ports[nodes[t].port].repo, nodes[t].tags[tagged + 1])
    OBVIOUS
  <1>2. /\ UNCHANGED << ports, nodes, owner, mark, mi, stats, outdated, cached, moves >>
        /\ UNCHANGED << bpc, req, targets, built, label, clock, made, late, due >>
        /\ bpc = "push" /\ tagged < Len(nodes[t].tags) /\ tagged' = tagged + 1
        /\ Put(ref, ImageOf(t))
    BY <1>0, <1>1 DEF PushTag, expandVars, sortVars, nodesVars, markVars
  <1>3. /\ t \in DOMAIN made /\ t \in targets /\ t \notin built /\ t \in DOMAIN nodes
        /\ \A j \in targets : j < t => j \in built
        /\ \A i \in DOMAIN made : i \in built \/ i = t
        /\ nodes[t].tags \in Seq(Tag) /\ mark = "done" /\ tagged \in Nat
    BY <1>0, <1>2, BuiltOrTarget DEF BuildRunInv, RunPlace, BuildRunTypeOK
  <1>4. ref \in RefsOf(nodes[t]) /\ ref \in Ref
    <2>1. tagged + 1 \in DOMAIN nodes[t].tags
      BY <1>2, <1>3
    <2>2. QED
      BY <1>1, <1>3, <2>1, RefFacts DEF Known
  <1>5. \A i \in DOMAIN nodes : ref \in RefsOf(nodes[i]) => i = t
    BY <1>3, <1>4, RefFacts DEF Known
  <1>6. /\ DOMAIN past' = DOMAIN past \cup {ref} /\ DOMAIN reg' = DOMAIN reg \cup {ref}
        /\ \A s : s # ref => Held(s)' = Held(s)
        /\ \A s : Lost(s) \subseteq Lost(s)'
        /\ Held(ref)' = ImageOf(t)
        /\ \A s \in DOMAIN reg : s # ref => reg'[s] = reg[s]
    <2>1. \A s : Lost(s) \subseteq Lost(s)'
      BY <1>2, PutFacts
    <2>2. QED
      BY <1>2, <2>1, PutFacts
  <1>7. /\ Left' = Left /\ target' = t /\ \A i : IsNext(i)' = IsNext(i)
        /\ \A i : ImageOf(i)' = ImageOf(i)
    BY <1>0, <1>2 DEF Left, target, IsNext, ImageOf
  <1>8. \A i \in DOMAIN made : PushedRefs(i)' = PushedRefs(i) \cup IF i = t THEN {ref} ELSE {}
    <2> SUFFICES ASSUME NEW i \in DOMAIN made
                 PROVE  PushedRefs(i)' = PushedRefs(i) \cup IF i = t THEN {ref} ELSE {}
      OBVIOUS
    <2> DEFINE Shown(n) == {y \in DOMAIN nodes[i].tags : i \in built \/ y <= n}
               Refs(n) == {RefOf(ports[nodes[i].port].repo, nodes[i].tags[x]) : x \in Shown(n)}
    <2>1. PushedRefs(i) = Refs(tagged) /\ PushedRefs(i)' = Refs(tagged + 1)
      BY <1>2 DEF PushedRefs, RefOf
    <2>2. CASE i \in built
      <3>1. i # t
        BY <1>3, <2>2
      <3>2. QED
        BY <2>1, <2>2, <3>1
    <2>3. CASE i = t
      <3>1. i \notin built
        BY <1>3, <2>3
      <3>2. Shown(tagged + 1) = Shown(tagged) \cup {tagged + 1}
        BY <1>2, <1>3, <2>3, <3>1
      <3>3. Refs(tagged + 1) = Refs(tagged) \cup {ref}
        BY <1>1, <2>3, <3>2
      <3>4. QED
        BY <2>1, <2>3, <3>3
    <2>4. QED
      BY <1>3, <2>2, <2>3
  <1>9. DOMAIN made \subseteq DOMAIN nodes
    BY <1>3 DEF BuildRunInv, BuildRunTypeOK
  <1>10. BuildRunTypeOK'
    <2>1. /\ DOMAIN past' \subseteq Ref /\ past' \in [DOMAIN past' -> SUBSET (Digests \cup {NoDigest})]
      BY <1>2, <1>4, PastTypes DEF BuildRunInv, Known
    <2>2. tagged' \in Nat
      BY <1>2, <1>3
    <2>3. made' \in [DOMAIN made' -> Made'] /\ late' \subseteq Digests \cup {NoDigest}
      BY <1>2 DEF BuildRunInv, BuildRunTypeOK, Made
    <2>4. QED
      BY <1>2, <2>1, <2>2, <2>3 DEF BuildRunInv, BuildRunTypeOK
  <1>11. InOrder' /\ RunPlace' /\ Begun' /\ TargetsClosed' /\ LabelKnown' /\ BuiltOnRebuilt'
    BY <1>0, <1>2, <1>7 DEF BuildRunInv, InOrder, RunPlace, Begun, NotBegun, TargetsClosed,
                            LabelKnown, BuiltOnRebuilt
  <1>12. PushesShow'
    <2> SUFFICES ASSUME NEW i \in DOMAIN made, NEW r \in PushedRefs(i)'
                 PROVE  r \in DOMAIN past' /\ Held(r)'.digest \in {made[i].digest} \cup late
      BY <1>2 DEF PushesShow
    <2>1. CASE r = ref
      <3>1. r \in RefsOf(nodes[i])
        BY <1>4, <1>8, <1>9, <2>1, RefFacts DEF Known
      <3>2. i = t
        BY <1>5, <1>9, <2>1, <3>1
      <3>3. QED
        BY <1>6, <2>1, <3>2 DEF ImageOf
    <2>2. CASE r # ref
      <3>1. r \in PushedRefs(i)
        BY <1>8, <2>2
      <3>2. QED
        BY <1>6, <2>2, <3>1 DEF BuildRunInv, PushesShow
    <2>3. QED
      BY <2>1, <2>2
  <1>13. Recorded'
    BY <1>2, <1>6 DEF BuildRunInv, Recorded
  <1>14. DueStands'
    <2> SUFFICES ASSUME NEW i \in DOMAIN nodes, Untouched(i)'
                 PROVE  (i \in due => Due(i)') /\ (Due(i)' => i \in due)
      BY <1>2 DEF DueStands
    <2>1. Untouched(i) /\ Due(i)' = Due(i)
      BY <1>2, PutLeaves
    <2>2. QED
      BY <1>2, <2>1 DEF BuildRunInv, DueStands
  <1>15. Undisturbed'
    <2> SUFFICES ASSUME moves = 0
                 PROVE  /\ \A r \in DOMAIN past' : \E i \in DOMAIN made :
                              r \in PushedRefs(i)' /\ Held(r)' = ImageOf(i)
                        /\ \A r \in DOMAIN reg' \ DOMAIN past' : reg'[r].created < Now /\ Earlier(reg'[r])
      BY <1>2, <1>7 DEF Undisturbed, Earlier
    <2>1. ASSUME NEW r \in DOMAIN past'
          PROVE  \E i \in DOMAIN made : r \in PushedRefs(i)' /\ Held(r)' = ImageOf(i)
      <3>1. CASE r = ref
        BY <1>3, <1>6, <1>8, <3>1
      <3>2. CASE r # ref
        <4>1. PICK i \in DOMAIN made : r \in PushedRefs(i) /\ Held(r) = ImageOf(i)
          BY <1>6, <3>2 DEF BuildRunInv, Undisturbed
        <4>2. QED
          BY <1>6, <1>8, <3>2, <4>1
      <3>3. QED
        BY <3>1, <3>2
    <2>2. ASSUME NEW r \in DOMAIN reg' \ DOMAIN past'
          PROVE  reg'[r].created < Now /\ Earlier(reg'[r])
      BY <1>6, <2>2 DEF BuildRunInv, Undisturbed
    <2>3. QED
      BY <2>1, <2>2
  <1>16. BasesStand'
    <2> SUFFICES ASSUME moves = 0, Ordinary, NEW i \in DOMAIN made, nodes[i].base.repo # NoRepo
                 PROVE  Held(nodes[i].base)' = Held(nodes[i].base)
      BY <1>2 DEF BuildRunInv, BasesStand, Ordinary, Idx
    <2>1. CASE nodes[i].base = ref
      <3>1. ref \in DOMAIN owner /\ owner[ref] = t
        BY <1>3, <1>4 DEF Known, ExpandInv, UniqueOwner
      <3>2. i \in DOMAIN nodes /\ nodes[i].port \in Idx
        BY <1>9, NodeRefs DEF Known
      <3>3. nodes[i].parent = t
        BY <2>1, <3>1, <3>2, ProducedIsParent DEF Known, ProducedBaseIsParent, Ordinary
      <3>4. t < i /\ t \in Nat /\ i \in Nat
        BY <1>3, <3>2, <3>3, ParentIsBase DEF Known, ExpandInv, ExpandTypeOK
      <3>5. i \in built
        BY <1>3, <3>4
      <3>6. t \in built
        BY <1>3, <3>4, <3>5 DEF BuildRunInv, InOrder
      <3>7. QED
        BY <1>3, <3>6
    <2>2. QED
      BY <1>2, <1>6, <2>1
  <1>17. QED
    BY <1>10, <1>11, <1>12, <1>13, <1>14, <1>15, <1>16 DEF BuildRunInv

LEMMA InvIntrude ==
    ASSUME Known, GraphTypeOK', BuildRunInv, Intrude, UNCHANGED << expandVars, markVars >>
    PROVE  BuildRunInv'
  <1>1. PICK p \in Pushes : Put(p[1], p[2]) /\ late' = late \cup {p[2].digest}
    BY DEF Intrude
  <1>2. /\ UNCHANGED << ports, nodes, owner, mark, mi, stats, outdated, cached >>
        /\ UNCHANGED << bpc, req, targets, built, label, tagged, clock, made, due >>
        /\ bpc \in {"next", "docker", "push"} /\ moves' # 0
    BY DEF Intrude, expandVars, sortVars, nodesVars, markVars, Known, GraphInv, GraphTypeOK
  <1>3. p[1] \in Ref /\ p[2].digest \in Digests \cup {NoDigest}
    BY RegistryAssumption DEF Image, Missing
  <1>4. /\ DOMAIN past' = DOMAIN past \cup {p[1]}
        /\ \A s : s # p[1] => Held(s)' = Held(s)
        /\ Held(p[1])' = p[2]
        /\ \A s : Lost(s) \subseteq Lost(s)'
        /\ Lost(p[1])' = Lost(p[1]) \cup {Held(p[1]).digest}
    <2>1. \A s : Lost(s) \subseteq Lost(s)'
      BY <1>1, PutFacts
    <2>2. QED
      BY <1>1, <2>1, PutFacts
  <1>5. /\ Left' = Left /\ target' = target /\ base' = base /\ HasBase' = HasBase
        /\ \A i : IsNext(i)' = IsNext(i)
    BY <1>2 DEF Left, target, IsNext, base, HasBase
  <1>6. BuildRunTypeOK'
    <2>1. /\ DOMAIN past' \subseteq Ref /\ past' \in [DOMAIN past' -> SUBSET (Digests \cup {NoDigest})]
      BY <1>1, <1>3, PastTypes DEF BuildRunInv, Known
    <2>2. made' \in [DOMAIN made' -> Made'] /\ late' \subseteq Digests \cup {NoDigest}
      BY <1>1, <1>2, <1>3 DEF BuildRunInv, BuildRunTypeOK, Made
    <2>3. QED
      BY <1>2, <2>1, <2>2 DEF BuildRunInv, BuildRunTypeOK
  <1>7. InOrder' /\ RunPlace' /\ Begun' /\ TargetsClosed'
    BY <1>2, <1>5 DEF BuildRunInv, InOrder, RunPlace, Begun, TargetsClosed
  <1>8. PushesShow'
    <2> SUFFICES ASSUME NEW i \in DOMAIN made, NEW r \in PushedRefs(i)
                 PROVE  r \in DOMAIN past' /\ Held(r)'.digest \in {made[i].digest} \cup late'
      BY <1>2, SamePushed DEF PushesShow
    <2>1. CASE r = p[1]
      BY <1>1, <1>4, <2>1
    <2>2. CASE r # p[1]
      BY <1>1, <1>4, <2>2 DEF BuildRunInv, PushesShow
    <2>3. QED
      BY <2>1, <2>2
  <1>9. LabelKnown'
    <2> SUFFICES ASSUME bpc = "docker"
                 PROVE  /\ label \in {NoDigest} \cup IF HasBase THEN {Held(base)'.digest} \cup Lost(base)' ELSE {}
                        /\ LET q == nodes[target].parent
                           IN  q \in built \cap DOMAIN made => label \in {made[q].digest, NoDigest} \cup late'
      BY <1>2, <1>5 DEF LabelKnown
    <2>1. label \in {NoDigest} \cup IF HasBase THEN {Held(base).digest} \cup Lost(base) ELSE {}
      BY DEF BuildRunInv, LabelKnown
    <2>2. Held(base).digest \in {Held(base)'.digest} \cup Lost(base)'
      BY <1>4, <1>5
    <2>3. Lost(base) \subseteq Lost(base)'
      BY <1>4, <1>5
    <2>4. QED
      BY <1>1, <2>1, <2>2, <2>3 DEF BuildRunInv, LabelKnown
  <1>10. Recorded'
    BY <1>2, <1>4 DEF BuildRunInv, Recorded
  <1>11. BuiltOnRebuilt'
    BY <1>1, <1>2 DEF BuildRunInv, BuiltOnRebuilt
  <1>12. DueStands'
    <2> SUFFICES ASSUME NEW i \in DOMAIN nodes, Untouched(i)'
                 PROVE  (i \in due => Due(i)') /\ (Due(i)' => i \in due)
      BY <1>2 DEF DueStands
    <2>1. Untouched(i) /\ Due(i)' = Due(i)
      BY <1>1, <1>2, PutLeaves
    <2>2. QED
      BY <1>2, <2>1 DEF BuildRunInv, DueStands
  <1>13. Undisturbed' /\ BasesStand'
    BY <1>2 DEF Undisturbed, BasesStand
  <1>14. QED
    BY <1>6, <1>7, <1>8, <1>9, <1>10, <1>11, <1>12, <1>13 DEF BuildRunInv

(* While the graph is built, the run has done nothing.                       *)
LEMMA InvGraph ==
    ASSUME Known, GraphTypeOK', BuildRunInv, GraphNext, UNCHANGED runVars
    PROVE  BuildRunInv'
  <1>1. CASE mark = "done"
    <2>1. UNCHANGED graphVars
      BY <1>1, DoneStops DEF Known
    <2>2. QED
      BY <2>1, AllTheSame
  <1>2. CASE mark # "done"
    <2>1. /\ bpc \in {"graph", "failed"} /\ NotBegun /\ built = {}
          /\ bpc = "graph" => tagged = 0
      BY <1>2 DEF BuildRunInv, RunPlace, Begun, BuildRunTypeOK, NotBegun
    <2>2. UNCHANGED << bpc, req, targets, built, label, tagged, clock, made, late, past, due >>
      BY DEF runVars
    <2>3. moves' = 0 => moves = 0 /\ reg' = reg
      BY DEF GraphNext, Move, envVars, Known, GraphInv, GraphTypeOK
    <2>4. mark' = "done" => mi' = Len(nodes') + 1
      BY <1>2, DoneAtEndStep DEF Known, DoneAtEnd
    <2>5. BuildRunTypeOK'
      BY <2>1, <2>2 DEF NotBegun, BuildRunInv, BuildRunTypeOK, Made
    <2>6. InOrder' /\ RunPlace' /\ Begun' /\ TargetsClosed'
      BY <2>1, <2>2, <2>4 DEF NotBegun, InOrder, RunPlace, Begun, TargetsClosed
    <2>7. PushesShow' /\ LabelKnown' /\ BuiltOnRebuilt' /\ BasesStand' /\ DueStands'
      BY <2>1, <2>2 DEF NotBegun, PushesShow, LabelKnown, BuiltOnRebuilt, BasesStand, DueStands
    <2>8. Recorded'
      BY <2>1, <2>2 DEF NotBegun, BuildRunInv, Recorded
    <2>9. Undisturbed'
      BY <2>1, <2>2, <2>3 DEF NotBegun, BuildRunInv, Undisturbed, Earlier
    <2>10. QED
      BY <2>5, <2>6, <2>7, <2>8, <2>9 DEF BuildRunInv
  <1>3. QED
    BY <1>1, <1>2

LEMMA InvBegin == BuildRunInit /\ GraphInv => BuildRunInv
  <1> SUFFICES ASSUME BuildRunInit, GraphInv PROVE BuildRunInv
    OBVIOUS
  <1>1. /\ bpc = "graph" /\ req = NoRequest /\ targets = {} /\ built = {} /\ label = NoDigest
        /\ tagged = 0 /\ clock = Now /\ made = << >> /\ late = {} /\ past = << >> /\ due = {}
    BY DEF BuildRunInit, RunInit
  <1>2. mark = "idle" /\ moves = 0 /\ \E w \in Worlds : reg = w.reg /\ cached = w.cached
    BY DEF BuildRunInit, GraphInit, MarkInit
  <1>3. BuildRunTypeOK
    BY <1>1, BuildAssumption DEF BuildRunTypeOK, GraphInv
  <1>4. InOrder /\ RunPlace /\ Begun /\ TargetsClosed
    BY <1>1, <1>2 DEF InOrder, RunPlace, Begun, NotBegun, TargetsClosed, NoRequest
  <1>5. PushesShow /\ LabelKnown /\ Recorded /\ BuiltOnRebuilt /\ DueStands /\ BasesStand
    BY <1>1, BuildAssumption
       DEF PushesShow, LabelKnown, Recorded, BuiltOnRebuilt, DueStands, BasesStand
  <1>6. Undisturbed
    BY <1>1, <1>2, BuildAssumption DEF Undisturbed
  <1>7. QED
    BY <1>3, <1>4, <1>5, <1>6 DEF BuildRunInv
-----------------------------------------------------------------------------
(* The run is an expansion, and what it does to the registry is well-formed. *)
LEMMA StepGraph ==
    ASSUME ExpandInv, ExpandInv', SortInv, GraphInv, BuildRunInv, [BuildRunNext]_buildVars
    PROVE  GraphInv'
  <1>1. CASE [GraphNext]_graphVars
    BY <1>1, GraphInvStep
  <1>2. CASE PushTag /\ UNCHANGED << expandVars, markVars >>
    <2> DEFINE ref == RefOf(ports[nodes[target].port].repo, nodes[target].tags[tagged + 1])
    <2>1. /\ bpc = "push" /\ tagged < Len(nodes[target].tags) /\ tagged \in Nat
          /\ Put(ref, ImageOf(target)) /\ UNCHANGED << cached, moves >>
      BY <1>2 DEF PushTag, BuildRunInv, BuildRunTypeOK
    <2>2. /\ target \in DOMAIN made /\ target \in DOMAIN nodes /\ nodes[target].tags \in Seq(Tag)
      BY <2>1, BuiltOrTarget DEF BuildRunInv, Known
    <2>3. ref \in Ref
      <3>1. tagged + 1 \in DOMAIN nodes[target].tags
        BY <2>1, <2>2
      <3>2. QED
        BY <2>2, <3>1, RefFacts
    <2>4. ImageOf(target) \in Image
      <3>1. made[target] \in Made
        BY <2>2 DEF BuildRunInv, BuildRunTypeOK
      <3>2. QED
        BY <3>1, BuildAssumption DEF ImageOf, Image, Made
    <2>5. DOMAIN reg' \subseteq Ref /\ \A r \in DOMAIN reg' : reg'[r] \in Image \cup {Missing}
      BY <2>1, <2>3, <2>4 DEF Put, GraphInv, GraphTypeOK
    <2>6. moves' \in 0..MaxMoves /\ cached' = cached
      BY <2>1 DEF GraphInv, GraphTypeOK
    <2>7. QED
      BY <1>2, <2>5, <2>6, GraphInvStable
  <1>3. CASE Intrude /\ UNCHANGED << expandVars, markVars >>
    <2>1. PICK p \in Pushes : Put(p[1], p[2])
      BY <1>3 DEF Intrude
    <2>2. p[1] \in Ref /\ p[2] \in Image \cup {Missing}
      BY <2>1, RegistryAssumption
    <2>3. DOMAIN reg' \subseteq Ref /\ \A r \in DOMAIN reg' : reg'[r] \in Image \cup {Missing}
      BY <2>1, <2>2 DEF Put, GraphInv, GraphTypeOK
    <2>4. moves' \in 0..MaxMoves /\ cached' = cached
      BY <1>3, RegistryAssumption DEF Intrude, GraphInv, GraphTypeOK
    <2>5. QED
      BY <1>3, <2>3, <2>4, GraphInvStable
  <1>4. QED
    BY <1>1, <1>2, <1>3 DEF BuildRunNext, buildVars

LEMMA StepRun ==
    ASSUME Known, GraphInv', BuildRunInv, [BuildRunNext]_buildVars
    PROVE  BuildRunInv'
  <1>1. GraphTypeOK'
    BY DEF GraphInv
  <1>2. CASE RunStep /\ UNCHANGED graphVars
    BY <1>1, <1>2, InvSelect, InvEnds, InvSpec, InvDocker, InvDockerOnly, InvPushEnds DEF RunStep
  <1>3. CASE GraphNext /\ UNCHANGED runVars
    BY <1>1, <1>3, InvGraph
  <1>4. CASE PushTag /\ UNCHANGED << expandVars, markVars >>
    BY <1>1, <1>4, InvPushTag
  <1>5. CASE Intrude /\ UNCHANGED << expandVars, markVars >>
    BY <1>1, <1>5, InvIntrude
  <1>6. CASE UNCHANGED buildVars
    BY <1>1, <1>6, AllTheSame DEF buildVars
  <1>7. QED
    BY <1>2, <1>3, <1>4, <1>5, <1>6 DEF BuildRunNext

(* The graph of a run is expanded as module Expand says.                     *)
THEOREM RunExpands == BuildRunSpec => ExpandSpec
  <1>1. BuildRunInit => ExpandInit
    BY DEF BuildRunInit, GraphInit
  <1>2. [BuildRunNext]_buildVars => [ExpandNext]_expandVars
    BY DEF BuildRunNext, GraphNext, Build, buildVars, graphVars
  <1>3. QED
    BY <1>1, <1>2, PTL DEF BuildRunSpec, ExpandSpec

(* What the other theorems rest on, at any time of the run.                  *)
LEMMA RunKnown == BuildRunSpec => [](Known /\ BuildRunInv)
  <1>1. BuildRunSpec => []ExpandInv /\ []SortInv
    BY RunExpands, ExpandInvariant, ExpandSorts, SortInvariant, PTL
  <1>2. BuildRunInit => GraphInv /\ BuildRunInv
    BY GraphInvInit, InvBegin DEF BuildRunInit
  <1>3. ExpandInv /\ ExpandInv' /\ SortInv /\ SortInv' /\ GraphInv /\ BuildRunInv
           /\ [BuildRunNext]_buildVars => GraphInv' /\ BuildRunInv'
    BY StepGraph, StepRun DEF Known
  <1>4. ExpandInv /\ SortInv /\ GraphInv /\ BuildRunInv => Known /\ BuildRunInv
    BY DEF Known
  <1>5. QED
    BY <1>1, <1>2, <1>3, <1>4, PTL DEF BuildRunSpec
-----------------------------------------------------------------------------
(* The inductive invariant of the run holds.                                 *)
THEOREM BuildRunInvariant == BuildRunSpec => []BuildRunInv
  BY RunKnown, PTL

(* A target is built on what the run made of its parent, or on what others   *)
(* pushed over it, however the images move in the meantime.                  *)
THEOREM RunBuiltOnRebuilt == BuildRunSpec => []BuiltOnRebuilt
  <1>1. BuildRunInv => BuiltOnRebuilt
    BY DEF BuildRunInv
  <1>2. QED
    BY <1>1, BuildRunInvariant, PTL

(* The label that matches what the base is now tells what was built on.      *)
THEOREM RunNoMissedUpdate == BuildRunSpec => []NoMissedUpdate
  <1>1. BuildRunInv => NoMissedUpdate
    BY DEF BuildRunInv, Recorded, NoMissedUpdate
  <1>2. QED
    BY <1>1, BuildRunInvariant, PTL
-----------------------------------------------------------------------------
(* As long as nobody else pushes and no image is half pushed: what has been  *)
(* pushed to since the selection is what the run has built.                  *)
LEMMA PastIsBuilt ==
    ASSUME Known, BuildRunInv, moves = 0, tagged = 0, NEW r \in DOMAIN past
    PROVE  \E m \in built : /\ m \in DOMAIN made /\ m \in DOMAIN nodes /\ r \in RefsOf(nodes[m])
                            /\ Held(r) = ImageOf(m)
  <1>1. PICK m \in DOMAIN made : r \in PushedRefs(m) /\ Held(r) = ImageOf(m)
    BY DEF BuildRunInv, Undisturbed
  <1>2. m \in DOMAIN nodes
    BY DEF BuildRunInv, BuildRunTypeOK, InOrder
  <1>3. nodes[m].tags \in Seq(Tag)
    BY <1>2, NodeRefs DEF Known, Node
  <1>4. m \in built
    <2>1. PICK y \in DOMAIN nodes[m].tags : m \in built \/ y <= 0
      BY <1>1 DEF PushedRefs
    <2>2. QED
      BY <1>3, <2>1
  <1>5. r \in RefsOf(nodes[m])
    BY <1>1, <1>2, RefFacts DEF Known
  <1>6. QED
    BY <1>1, <1>2, <1>4, <1>5

(* An image that was there before is stale on a base of this run.            *)
LEMMA StaleOnFresh ==
    ASSUME Known, BuildRunInv, moves = 0, tagged = 0, NEW c \in DOMAIN nodes, c \notin built,
           nodes[c].base \in DOMAIN past, ChainOf(nodes[c]) # << >>
    PROVE  Stale(ChainOf(nodes[c]), Held(Id(nodes[c])), Held(nodes[c].base))
  <1>1. PICK m \in DOMAIN made : Held(nodes[c].base) = ImageOf(m)
    BY PastIsBuilt
  <1>2. /\ made[m].digest \in NewDigests /\ made[m].created \in Nat /\ Now <= made[m].created
        /\ Now \in Nat
    BY BuildAssumption DEF BuildRunInv, BuildRunTypeOK, Made, Recorded
  <1>3. Id(nodes[c]) \notin DOMAIN past
    <2> SUFFICES ASSUME Id(nodes[c]) \in DOMAIN past PROVE FALSE
      OBVIOUS
    <2>1. PICK k \in built : k \in DOMAIN nodes /\ Id(nodes[c]) \in RefsOf(nodes[k])
      BY PastIsBuilt
    <2>2. k = c
      BY <2>1, RefFacts DEF Known
    <2>3. QED
      BY <2>1, <2>2
  <1>4. CASE Held(Id(nodes[c])) = Missing
    BY <1>4 DEF Stale
  <1>5. CASE Held(Id(nodes[c])) # Missing
    <2> DEFINE image == Held(Id(nodes[c]))
    <2>1. image.created < Now /\ Earlier(image) /\ image.created \in Nat
      BY <1>3, <1>5, HeldTypes DEF Held, BuildRunInv, Undisturbed, Known
    <2>2. image.created < made[m].created /\ image.label # made[m].digest
      BY <1>2, <2>1 DEF Earlier
    <2>3. ChainSays(ChainOf(nodes[c]), ImageOf(m), image)
      BY <2>2 DEF ChainSays, Says, CreatedSays, DigestSays, ImageOf
    <2>4. QED
      BY <1>1, <2>3 DEF Stale
  <1>6. QED
    BY <1>4, <1>5

LEMMA AllWasBuilt ==
    ASSUME Known, BuildRunInv, moves = 0, tagged = 0, NEW i \in due, i \notin built, ~Due(i),
           \A j \in Lineage(i) : ChainOf(nodes[j]) # << >>
    PROVE  FALSE
  <1>1. /\ i \in DOMAIN nodes /\ LineageSound(i) /\ DOMAIN nodes = 1..Len(nodes)
        /\ Len(nodes) \in Nat
    BY LineageFacts DEF Known, ExpandInv, ExpandTypeOK, BuildRunInv, BuildRunTypeOK
  <1>2. Lineage(i) \subseteq 1..Len(nodes)
    BY <1>1 DEF LineageSound
  <1>3. \A k \in Lineage(i) : k \in built \/ nodes[k].base \notin DOMAIN past
    BY <1>1, <1>2, StaleOnFresh DEF Due
  <1>4. PICK k \in Lineage(i) : Id(nodes[k]) \in DOMAIN past \/ nodes[k].base \in DOMAIN past
    BY <1>1 DEF BuildRunInv, DueStands, Untouched
  <1>5. k \in built
    <2>1. CASE Id(nodes[k]) \in DOMAIN past
      <3>1. PICK m \in built : m \in DOMAIN nodes /\ Id(nodes[k]) \in RefsOf(nodes[m])
        BY <2>1, PastIsBuilt
      <3>2. m = k
        BY <1>1, <1>2, <3>1, RefFacts DEF Known
      <3>3. QED
        BY <3>1, <3>2
    <2>2. QED
      BY <1>3, <1>4, <2>1
  <1>6. PICK last \in Lineage(i) \cap built : \A j \in Lineage(i) \cap built : j <= last
    BY <1>1, <1>2, <1>5, GreatestNatural
  <1>7. PICK c \in Lineage(i) : nodes[c].parent = last
    BY <1>1, <1>6 DEF LineageSound
  <1>8. c \in DOMAIN nodes /\ last \in DOMAIN nodes /\ last < c /\ nodes[c].base \in RefsOf(nodes[last])
    BY <1>1, <1>2, <1>6, <1>7, ParentIsBase
  <1>9. c \notin built
    BY <1>1, <1>6, <1>8
  <1>10. last \in DOMAIN made
    BY <1>4, PastIsBuilt DEF BuildRunInv, InOrder
  <1>11. nodes[c].base \in DOMAIN past
    BY <1>6, <1>8, <1>10, RefFacts DEF Known, BuildRunInv, PushesShow
  <1>12. QED
    BY <1>3, <1>9, <1>11

(* What was due and was not built is due still.                              *)
THEOREM RunNothingLost == BuildRunSpec => []NothingLost
  <1>1. Known /\ BuildRunInv => NothingLost
    BY AllWasBuilt DEF NothingLost
  <1>2. QED
    BY <1>1, RunKnown, PTL
-----------------------------------------------------------------------------
Finished == /\ bpc = "done" /\ moves = 0 /\ req.push /\ req.ids = {}
            /\ Ordinary /\ OwnLabel = {}

(* When the run is done, its targets are what it has built and pushed.       *)
LEMMA AtTheEnd ==
    ASSUME Known, BuildRunInv, Finished
    PROVE  /\ tagged = 0 /\ built = targets /\ DOMAIN made = targets
           /\ targets \subseteq DOMAIN nodes
           /\ \A j \in targets : Held(Id(nodes[j])) = ImageOf(j) /\ ImageOf(j).label = made[j].label
  <1>1. /\ tagged = 0 /\ built = targets /\ DOMAIN made = targets
        /\ targets \subseteq DOMAIN nodes
    BY DEF Finished, BuildRunInv, RunPlace, InOrder, BuildRunTypeOK
  <1>2. ASSUME NEW j \in targets PROVE Held(Id(nodes[j])) = ImageOf(j)
    <2>1. Id(nodes[j]) \in DOMAIN past
      BY <1>1, RefFacts DEF Known, BuildRunInv, PushesShow
    <2>2. PICK m \in built : /\ m \in DOMAIN nodes /\ Id(nodes[j]) \in RefsOf(nodes[m])
                             /\ Held(Id(nodes[j])) = ImageOf(m)
      BY <1>1, <2>1, PastIsBuilt DEF Finished
    <2>3. m = j
      BY <1>1, <2>2, RefFacts DEF Known
    <2>4. QED
      BY <2>2, <2>3
  <1>3. \A j : ImageOf(j).label = made[j].label
    BY DEF ImageOf, Finished
  <1>4. QED
    BY <1>1, <1>2, <1>3

(* Of the targets only those are due again whose label was left out.         *)
LEMMA TargetVerdict ==
    ASSUME Known, BuildRunInv, Finished, NEW j \in targets
    PROVE  Stale(ChainOf(nodes[j]), Held(Id(nodes[j])), Held(nodes[j].base)) <=> Unlabelled(j)
  <1> DEFINE ch == ChainOf(nodes[j])
             mine == Held(Id(nodes[j]))
             under == Held(nodes[j].base)
  <1>1. j \in DOMAIN made /\ j \in DOMAIN nodes /\ mine = ImageOf(j) /\ mine.label = made[j].label
    BY AtTheEnd
  <1>2. made[j] \in Made
    BY <1>1 DEF BuildRunInv, BuildRunTypeOK
  <1>3. mine # Missing /\ mine.created = made[j].created /\ made[j].created \in Nat
    <2>1. mine.digest \in Digests
      BY <1>1, <1>2, BuildAssumption DEF ImageOf, Made
    <2>2. QED
      BY <1>1, <1>2, <2>1, RegistryAssumption DEF Missing, ImageOf, Made
  <1>4. CASE ch = << >>
    BY <1>3, <1>4 DEF Stale, Unlabelled
  <1>5. CASE ch # << >>
    <2>1. nodes[j].port \in Idx /\ ports[nodes[j].port] \in Port
      BY <1>1, NodeRefs, PortTypes DEF Known, ExpandInv, ExpandTypeOK, SortTypeOK
    <2>2. ch \in Seq(Comparators)
      BY <2>1 DEF Port, ChainOf
    <2>3. Head(ch) \in {"created", "digest"}
      BY <1>5, <2>2 DEF Comparators
    <2>4. nodes[j].base.repo # NoRepo
      <3>1. ports[nodes[j].port].kind = "container"
        BY <1>5, <2>1 DEF Finished, Ordinary, ChainOf
      <3>2. ports[nodes[j].port].src # NoRepo
        BY <2>1, <3>1, PortTypes, PortsAssumption DEF Known, ExpandInv, ExpandTypeOK, SortTypeOK
      <3>3. nodes[j].base = BaseRef(ports[nodes[j].port], nodes[j].from)
        BY <1>1 DEF Known, ExpandInv, NodeShape
      <3>4. QED
        BY <3>1, <3>2, <3>3 DEF BaseRef, RefOf
    <2>5. /\ under # Missing /\ under.created < made[j].created
          /\ made[j].label \in {NoDigest, under.digest}
      BY <1>1, <2>4 DEF BuildRunInv, BasesStand, Finished
    <2>6. under.digest # NoDigest /\ under.created \in Nat
      BY <2>5, HeldTypes, RegistryAssumption DEF Known, Image
    <2>7. Stale(ch, mine, under) <=> Says(Head(ch), under, mine)
      BY <1>3, <1>5, <2>5 DEF Stale, ChainSays
    <2>8. CASE Head(ch) = "created"
      <3>1. ~Says(Head(ch), under, mine)
        BY <1>3, <2>5, <2>6, <2>8 DEF Says, CreatedSays
      <3>2. QED
        BY <2>7, <2>8, <3>1 DEF Unlabelled
    <2>9. CASE Head(ch) = "digest"
      <3>1. Says(Head(ch), under, mine) <=> made[j].label = NoDigest
        BY <1>1, <2>5, <2>6, <2>9 DEF Says, DigestSays
      <3>2. QED
        BY <1>1, <1>5, <2>7, <2>9, <3>1 DEF Unlabelled
    <2>10. QED
      BY <2>3, <2>8, <2>9
  <1>6. QED
    BY <1>4, <1>5

(* And of the others those that were due before.                             *)
LEMMA OtherVerdict ==
    ASSUME Known, BuildRunInv, Finished, NEW i \in DOMAIN nodes, i \notin targets
    PROVE  Due(i) <=> i \in due
  <1>1. /\ tagged = 0 /\ built = targets /\ DOMAIN made = targets
        /\ LineageSound(i) /\ DOMAIN nodes = 1..Len(nodes) /\ Len(nodes) \in Nat
    BY AtTheEnd, LineageFacts DEF Known, ExpandInv, ExpandTypeOK
  <1>2. Lineage(i) \subseteq DOMAIN nodes
    BY <1>1 DEF LineageSound
  <1>3. \A c \in DOMAIN nodes : nodes[c].parent \in targets => c \in targets
    BY DEF BuildRunInv, TargetsClosed, Finished
  <1>4. Lineage(i) \cap targets = {}
    <2> SUFFICES ASSUME Lineage(i) \cap targets # {} PROVE FALSE
      OBVIOUS
    <2>1. PICK k \in Lineage(i) \cap targets : \A j \in Lineage(i) \cap targets : j <= k
      BY <1>1, <1>2, GreatestNatural
    <2>2. PICK c \in Lineage(i) : nodes[c].parent = k
      BY <1>1, <2>1 DEF LineageSound
    <2>3. k < c /\ c \in targets /\ k \in Nat /\ c \in Nat
      BY <1>1, <1>2, <1>3, <2>1, <2>2, ParentIsBase
    <2>4. QED
      BY <2>1, <2>2, <2>3
  <1>5. Untouched(i)
    <2> SUFFICES ASSUME NEW k \in Lineage(i)
                 PROVE  Id(nodes[k]) \notin DOMAIN past /\ nodes[k].base \notin DOMAIN past
      BY DEF Untouched
    <2>1. k \in DOMAIN nodes /\ k \notin targets
      BY <1>2, <1>4
    <2>2. Id(nodes[k]) \notin DOMAIN past
      <3> SUFFICES ASSUME Id(nodes[k]) \in DOMAIN past PROVE FALSE
        OBVIOUS
      <3>1. PICK m \in built : m \in DOMAIN nodes /\ Id(nodes[k]) \in RefsOf(nodes[m])
        BY <1>1, PastIsBuilt DEF Finished
      <3>2. m = k
        BY <2>1, <3>1, RefFacts DEF Known
      <3>3. QED
        BY <1>1, <2>1, <3>1, <3>2
    <2>3. nodes[k].base \notin DOMAIN past
      <3> SUFFICES ASSUME nodes[k].base \in DOMAIN past PROVE FALSE
        OBVIOUS
      <3>1. PICK m \in built : m \in DOMAIN nodes /\ nodes[k].base \in RefsOf(nodes[m])
        BY <1>1, PastIsBuilt DEF Finished
      <3>2. nodes[k].base \in DOMAIN owner /\ owner[nodes[k].base] = m
        BY <3>1 DEF Known, ExpandInv, UniqueOwner
      <3>3. nodes[k].port \in Idx
        BY <2>1, NodeRefs DEF Known
      <3>4. nodes[k].parent = m
        BY <2>1, <3>2, <3>3, ProducedIsParent DEF Known, ProducedBaseIsParent, Finished, Ordinary
      <3>5. QED
        BY <1>1, <1>3, <2>1, <3>1, <3>4
    <2>4. QED
      BY <2>2, <2>3
  <1>6. QED
    BY <1>5 DEF BuildRunInv, DueStands, Finished

LEMMA EndVerdicts ==
    ASSUME Known, BuildRunInv, Finished, NEW i \in DOMAIN nodes
    PROVE  Due(i) <=> \E j \in Lineage(i) : Unlabelled(j) \/ j \in due \ targets
  <1>1. /\ LineageSound(i) /\ DOMAIN nodes = 1..Len(nodes) /\ Len(nodes) \in Nat
        /\ \A j \in DOMAIN nodes : LineageSound(j)
    BY LineageFacts DEF Known, ExpandInv, ExpandTypeOK
  <1>2. Lineage(i) \subseteq DOMAIN nodes /\ DOMAIN made = targets
    BY <1>1, AtTheEnd DEF LineageSound
  <1>3. \A j \in Lineage(i) : Due(j) => Due(i)
    BY <1>1 DEF LineageSound, Due
  <1>4. ASSUME NEW j \in Lineage(i), Unlabelled(j) PROVE Due(i)
    <2>1. j \in targets
      BY <1>2, <1>4 DEF Unlabelled
    <2>2. QED
      BY <1>4, <2>1, TargetVerdict DEF Due
  <1>5. ASSUME NEW j \in Lineage(i), j \in due \ targets PROVE Due(i)
    BY <1>2, <1>3, <1>5, OtherVerdict
  <1>6. ASSUME Due(i) PROVE \E j \in Lineage(i) : Unlabelled(j) \/ j \in due \ targets
    <2>1. PICK j \in Lineage(i) :
             Stale(ChainOf(nodes[j]), Held(Id(nodes[j])), Held(nodes[j].base))
      BY <1>6 DEF Due
    <2>2. CASE j \in targets
      BY <2>1, <2>2, TargetVerdict
    <2>3. CASE j \notin targets
      <3>1. Due(j)
        BY <1>1, <1>2, <2>1 DEF Due, LineageSound
      <3>2. QED
        BY <1>2, <2>3, <3>1, OtherVerdict
    <2>4. QED
      BY <2>2, <2>3
  <1>7. QED
    BY <1>4, <1>5, <1>6

(* A finished run leaves nothing to do that it could have done.  A port that *)
(* builds on its own repository, or one whose comparator reads another label *)
(* than the build writes, is rebuilt by every run.                           *)
THEOREM RunConverges == BuildRunSpec => [](Ordinary /\ OwnLabel = {} => Converges)
  <1>1. Known /\ BuildRunInv => (Ordinary /\ OwnLabel = {} => Converges)
    BY EndVerdicts DEF Converges, Finished
  <1>2. QED
    BY <1>1, RunKnown, PTL
=============================================================================
