------------------------------ MODULE RenderTree ------------------------------
(***************************************************************************)
(* `clade graph`: the tree that renderTree prints over the nodes of a      *)
(* graph, or over those of a graph file that `clade outdated` reduced to a *)
(* selection of them.  A line of the tree is the reference it shows, and   *)
(* the lines at one depth are a set: a reference is the child of one base. *)
(***************************************************************************)
EXTENDS Expand

Baseless(i) == nodes[i].base.repo = NoRepo

(* is_node: the primary tags of the nodes to print.                         *)
Ids(S) == {Id(nodes[i]) : i \in S}

(* children[ref]                                                            *)
children(S, ref) == {i \in S : ~Baseless(i) /\ nodes[i].base = ref}

externalBases(S) == {nodes[i].base : i \in {j \in S : ~Baseless(j)}} \ Ids(S)

(* Mutant of Roots: a node without a base hangs under none.                 *)
RootsExternal(S) == externalBases(S)

Roots(S) == externalBases(S) \cup Ids({i \in S : Baseless(i)})

(* walk: the references printed at each depth.                              *)
Depths(S) == 0..(Cardinality(S) + 1)

Lines(S) ==
    LET walk[d \in Depths(S)] ==
            IF d = 0 THEN Roots(S)
            ELSE Ids(UNION {children(S, ref) : ref \in walk[d - 1]})
    IN  walk
-----------------------------------------------------------------------------
(* Where a node is printed.                                                 *)
DepthsOf(S, i) == {d \in Depths(S) : Id(nodes[i]) \in Lines(S)[d]}

(* The walk ends, and prints every node exactly once - whichever nodes the   *)
(* graph was reduced to.  A node is left out only with the node it is built  *)
(* on, so only where the bases lead round to the start, as they do for a     *)
(* node that rebuilds its own primary tag.                                   *)
TreeOnce ==
    Expanded =>
       \A S \in SUBSET DOMAIN nodes :
          /\ Lines(S)[Cardinality(S) + 1] = {}
          /\ \A i \in S : \/ Cardinality(DepthsOf(S, i)) = 1
                          \/ /\ DepthsOf(S, i) = {}
                             /\ \E j \in S : /\ nodes[i].base = Id(nodes[j])
                                             /\ DepthsOf(S, j) = {}
=============================================================================
