------------------------------ MODULE MCDispatch ------------------------------
(* A chain of two nodes and two events: the refresh workflow, a run          *)
(* dispatched by hand or a move of the upstream image, in any combination.   *)
(* A chain of three, and two nodes on one base, however they stand: one      *)
(* event.  Nodes judged by created, by digest, and side by side.             *)
EXTENDS Dispatch

Chain2 == << 0, 1 >>
Chain3 == << 0, 1, 2 >>
Fork == << 0, 1, 1 >>

All(g, j) == [n \in DOMAIN g |-> j]
Starts(g) == [DOMAIN g -> {"missing", "fresh", "behind"}]

Setup(g, js, st, k) == [parent |-> g, judge |-> js, start |-> st, events |-> k]

UpToDate == << "fresh", "fresh" >>
BaseMissing == << "missing", "fresh" >>
LeafBehind == << "fresh", "behind" >>

MCSetups ==
    {Setup(Chain2, All(Chain2, "created"), st, 2) : st \in {UpToDate, BaseMissing, LeafBehind}}
    \cup {Setup(Chain2, All(Chain2, "digest"), st, 2) : st \in {UpToDate, LeafBehind}}
    \cup {Setup(Chain3, All(Chain3, j), st, 1) : j \in {"created", "digest"}, st \in Starts(Chain3)}
    \cup {Setup(Fork, << "created", "created", "digest" >>, st, 1) : st \in Starts(Fork)}

(* The chain of two under the default chain, up to date, and two events.     *)
DefaultSetups == {Setup(Chain2, All(Chain2, "created"), UpToDate, 2)}
=============================================================================
