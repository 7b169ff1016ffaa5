------------------------------- MODULE TopoSort -------------------------------
(***************************************************************************)
(* graph.topoSort: Kahn's algorithm over the ports, one step per loop      *)
(* iteration.  A port is named by its position in the list.                *)
(***************************************************************************)
EXTENDS Ports

VARIABLES
    ports,      \* the argument of topoSort
    indeg,      \* indeg: upstream ports still ahead
    next,       \* position of the loop that seeds the queue
    queue,
    kids,       \* children of the port popped last, still to be visited
    out,
    verdict     \* "sorting", "sorted" or "cycle" (the error return)

sortVars == << ports, indeg, next, queue, kids, out, verdict >>

Idx == DOMAIN ports
N == Len(ports)

SortInit ==
    /\ ports \in Configs
    /\ indeg = [p \in DOMAIN ports |-> IF Fed(ports, p) THEN 1 ELSE 0]
    /\ next = 1
    /\ queue = << >>
    /\ kids = {}
    /\ out = << >>
    /\ verdict = "sorting"

(* Mutant of Ready: the count of upstream ports is not looked at.           *)
ReadyAlways(p) == TRUE

Ready(p) == indeg[p] = 0

(* Mutant of Lowered: the count is not lowered.                             *)
NotLowered(c) == indeg

Lowered(c) == [indeg EXCEPT ![c] = @ - 1]

(* Mutant of Complete: only an order with nothing in it counts as a cycle.  *)
AnyListed == out # << >>

Complete == Len(out) = N

(* Mutant of Exhausted: the loop runs until every port is listed.           *)
OutFull == Len(out) = N

Exhausted == queue = << >>

(* for _, p := range ports: a port without upstream enters the queue.       *)
Seed == /\ next <= N
        /\ queue' = IF Ready(next) THEN Append(queue, next) ELSE queue
        /\ next' = next + 1
        /\ UNCHANGED << ports, indeg, kids, out, verdict >>

(* p := queue[0]; queue = queue[1:]; out = append(out, p)                   *)
Pop == /\ verdict = "sorting"
       /\ next > N
       /\ kids = {}
       /\ queue # << >>
       /\ LET p == Head(queue)
          IN  /\ out' = Append(out, p)
              /\ kids' = {c \in Idx : Feeds(ports, p, c)}
       /\ queue' = Tail(queue)
       /\ UNCHANGED << ports, indeg, next, verdict >>

(* indeg[c]--, and c enters the queue when nothing is ahead of it; children *)
(* come in list order.                                                      *)
Visit(c) == /\ c \in kids
            /\ \A d \in kids : c <= d
            /\ kids' = kids \ {c}
            /\ indeg' = Lowered(c)
            /\ queue' = IF Ready(c)' THEN Append(queue, c) ELSE queue
            /\ UNCHANGED << ports, next, out, verdict >>

Finish == /\ verdict = "sorting"
          /\ next > N
          /\ kids = {}
          /\ Exhausted
          /\ verdict' = IF Complete THEN "sorted" ELSE "cycle"
          /\ UNCHANGED << ports, indeg, next, queue, kids, out >>

SortNext == Seed \/ Pop \/ (\E c \in Idx : Visit(c)) \/ Finish

SortSpec == SortInit /\ [][SortNext]_sortVars
-----------------------------------------------------------------------------
Listed == {out[i] : i \in DOMAIN out}
Queued == {queue[i] : i \in DOMAIN queue}

SortTypeOK ==
    /\ ports \in Configs
    /\ indeg \in [Idx -> 0..1]
    /\ next \in 1..(N + 1)
    /\ queue \in Seq(Idx)
    /\ kids \in SUBSET Idx
    /\ out \in Seq(Idx)
    /\ verdict \in {"sorting", "sorted", "cycle"}

(* Every port is listed at most once and after the port that feeds it: the  *)
(* expansion of a port (Build) relies on it to find the tags its upstream   *)
(* produced.                                                                *)
OrderSound ==
    /\ \A i, j \in DOMAIN out : out[i] = out[j] => i = j
    /\ \A i \in DOMAIN out : \A u \in Idx :
          Feeds(ports, u, out[i]) => \E j \in 1..(i - 1) : out[j] = u

(* The error "dependency cycle among ports" is right: it is returned exactly *)
(* when some ports feed one another in a circle, that is, when a non-empty   *)
(* set of ports each has its upstream inside the set.                        *)
Circular(S) == S # {} /\ \A c \in S : \E u \in S : Feeds(ports, u, c)

CycleVerdict ==
    /\ verdict = "cycle" => \E S \in SUBSET Idx : Circular(S)
    /\ verdict = "sorted" => \A S \in SUBSET Idx : ~Circular(S)

(* The inductive invariant.  A port is listed or queued exactly when the     *)
(* seeding loop has passed it and nothing is ahead of it; what is ahead of a *)
(* port is its upstream, until it is listed and its children are visited.    *)
Counted ==
    /\ \A c \in Idx : (c \in Listed \/ c \in Queued) <=> (indeg[c] = 0 /\ c < next)
    /\ \A c \in Idx : indeg[c] = 1 <=>
          \E u \in Idx : Feeds(ports, u, c) /\ (u \notin Listed \/ c \in kids)

NoRepeat ==
    /\ \A i, j \in DOMAIN out : out[i] = out[j] => i = j
    /\ \A i, j \in DOMAIN queue : queue[i] = queue[j] => i = j
    /\ Listed \cap Queued = {}

Phases ==
    /\ next <= N => out = << >> /\ kids = {}
    /\ verdict # "sorting" => next = N + 1 /\ queue = << >> /\ kids = {}
    /\ verdict = "sorted" => Len(out) = N
    /\ verdict = "cycle" => Len(out) # N

(* Kids wait for a port that is listed.                                      *)
KidsFed == \A c \in kids : \E u \in Listed : Feeds(ports, u, c)

NoCircularListed == \A S \in SUBSET Idx : Circular(S) => S \cap Listed = {}

SortInv == /\ SortTypeOK
           /\ Counted
           /\ NoRepeat
           /\ Phases
           /\ KidsFed
           /\ OrderSound
           /\ NoCircularListed

(* topoSort returns on every list of ports, circular ones included.          *)
SortTerminates == <>(verdict # "sorting")

(* topoSort implements the abstract ordering.                                *)
Ordering == INSTANCE TopoOrder WITH ports <- ports, out <- out, verdict <- verdict

RefinesTopoOrder == Ordering!Spec
=============================================================================
