------------------------------- MODULE Dispatch -------------------------------
(***************************************************************************)
(* The build automation: the refresh workflow computes the outdated nodes  *)
(* every day and dispatches one run of the build workflow for each, in the *)
(* order of the graph, waiting for the newest run it sees to end before    *)
(* the next.  Runs register late, fail, and race with the runs that people *)
(* dispatch.  OfImage gives a comparator all it asks for, so the head of a *)
(* port's chain judges alone: created in the default chain, or digest.     *)
(* Versions do not move.                                                   *)
(***************************************************************************)
EXTENDS Integers, Sequences

CONSTANTS
    Setups,     \* where a run of the model starts:
                \*   parent, of each node, a smaller one; 0 is the upstream image
                \*   judge, the head of each node's chain
                \*   start, how each node stands
                \*   events, how often the refresh workflow starts, somebody
                \*   dispatches a run or the upstream image moves, all together
    Ages        \* how long before its push an upstream image may have been made,
                \* in images made here since; 0: pushed at once

ASSUME DispatchAssumption ==
    /\ Ages \subseteq Nat
    /\ \A s \in Setups :
          /\ s.parent \in Seq(Nat) /\ \A n \in DOMAIN s.parent : s.parent[n] < n
          /\ s.judge \in [DOMAIN s.parent -> {"created", "digest"}]
          /\ s.start \in [DOMAIN s.parent -> {"missing", "fresh", "behind"}]
          /\ s.events \in Nat

VARIABLES
    parent,
    judge,
    held,       \* the registry: the image [id, created, label, from] of each node
                \* and of 0
    lastId,     \* images are numbered in the order they are pushed,
    lastMade,   \* and created is their place in the order they are made
    runs,       \* the build runs in the order they were created
    pc,         \* the refresh job: "idle", "dispatch", "list", "watch", "done", "failed"
    plan,       \* the nodes it has still to dispatch
    watched,    \* the run it waits for
    events,     \* the events still to come
    past,       \* history: what the registry ever held, which entries of the
                \* restored cache may still show
    first,      \* history: the first run of today
    stray,      \* history: today a run was watched that was not the one dispatched
    quiet,      \* history: nothing today went by the plan's back
    apart       \* history: a base was never made or moved while a dependent was
                \* built, and every upstream image was pushed at once

refreshVars == << pc, plan, watched >>
registryVars == << held, lastId, lastMade, past >>
dispatchVars == << parent, judge, registryVars, runs, refreshVars, events, first, stray,
                   quiet, apart >>

(* An image that knows no base.                                             *)
Plain(id, created) == [id |-> id, created |-> created, label |-> 0, from |-> 0]

NoImage == Plain(0, 0)

Nodes == DOMAIN parent
Refs == Nodes \cup {0}
baseOf(i) == held[parent[runs[i].node]]

Run(n, own) == [node |-> n, own |-> own, stage |-> "accepted", label |-> 0, from |-> 0,
                created |-> 0, id |-> 0]

(* created.IsOutdated and digest.IsOutdated.                                 *)
Judged(h, n) == IF judge[n] = "created" THEN h[n].created < h[parent[n]].created
                                        ELSE h[n].label # h[parent[n]].id

(* The image is missing, its base is, or its chain says so.                 *)
Stale(h, n) == h[n].id = 0 \/ h[parent[n]].id = 0 \/ Judged(h, n)

(* Mutant of OutdatedIn: a stale parent does not count.                     *)
StaleIn(h) == {n \in Nodes : Stale(h, n)}

OutdatedIn(h) ==
    LET bad[n \in Nodes] == Stale(h, n) \/ (parent[n] # 0 /\ bad[parent[n]])
    IN  {n \in Nodes : bad[n]}

(* Mutant of IsNext: dependents first.                                      *)
IsLast(n) == n \in plan /\ \A m \in plan : m <= n

(* The outdated nodes are listed in the order of the graph.                 *)
IsNext(n) == n \in plan /\ \A m \in plan : n <= m

(* At first each node is missing, up to date, or behind: made before all     *)
(* that is up to date, dependents before their bases.                        *)
Init ==
    /\ \E s \in Setups :
          /\ parent = s.parent /\ judge = s.judge /\ events = s.events
          /\ held = [n \in Refs |->
                IF n = 0 THEN Plain(1, Len(parent))
                ELSE IF s.start[n] = "missing" THEN NoImage
                ELSE IF s.start[n] = "behind"
                     THEN Plain(n + 1, Len(parent) - n)
                ELSE [id |-> n + 1, created |-> Len(parent) + n,
                      label |-> parent[n] + 1, from |-> parent[n] + 1]]
    /\ lastId = Len(parent) + 1
    /\ lastMade = 2 * Len(parent)
    /\ past = [n \in Refs |-> {held[n]} \ {NoImage}]
    /\ runs = << >>
    /\ pc = "idle" /\ plan = {} /\ watched = 0
    /\ first = 1 /\ stray = FALSE /\ quiet = FALSE /\ apart = TRUE
-----------------------------------------------------------------------------
Event == events > 0 /\ events' = events - 1

(* `clade outdated`: each image as the registry has it, or as the restored   *)
(* cache remembers it.  A run by hand may ask for the graph alone.           *)
Refresh ==
    /\ pc \in {"idle", "done", "failed"}
    /\ Event
    /\ \E seen \in [Refs -> UNION {past[n] : n \in Refs} \cup {NoImage}], build \in BOOLEAN :
          /\ \A n \in Refs : seen[n] \in past[n] \cup {held[n]}
          /\ plan' = IF build THEN OutdatedIn(seen) ELSE {}
          /\ quiet' = (/\ build
                       /\ seen = held
                       /\ \A i \in DOMAIN runs : runs[i].stage \in {"success", "failure"})
    /\ pc' = IF plan' = {} THEN "done" ELSE "dispatch"
    /\ first' = Len(runs) + 1
    /\ stray' = FALSE
    /\ UNCHANGED << parent, judge, registryVars, runs, watched, apart >>

Dispatch ==
    /\ pc = "dispatch"
    /\ \E n \in plan : /\ IsNext(n)
                       /\ runs' = Append(runs, Run(n, TRUE))
                       /\ plan' = plan \ {n}
    /\ pc' = "list"
    /\ UNCHANGED << parent, judge, registryVars, watched, events, first, stray, quiet, apart >>

Registered == {i \in DOMAIN runs : runs[i].stage # "accepted"}

(* Ten seconds later: `gh run list --limit 1`.                               *)
List ==
    /\ pc = "list"
    /\ Registered # {}
    /\ \E i \in Registered :
          /\ \A j \in Registered : j <= i
          /\ watched' = i
          /\ LET missed == ~(runs[i].own /\ \A j \in DOMAIN runs : runs[j].own => j <= i)
             IN  stray' = (stray \/ missed) /\ quiet' = (quiet /\ ~missed)
    /\ pc' = "watch"
    /\ UNCHANGED << parent, judge, registryVars, runs, plan, events, first, apart >>

(* Mutant of Over: a run that fails is waited for forever.                  *)
NeverFailed(i) == runs[i].stage = "success"

Over(i) == runs[i].stage \in {"success", "failure"}

(* Mutant of Passed: --exit-status is left out.                             *)
PassedAnyway(i) == Over(i)

Passed(i) == runs[i].stage = "success"

(* `gh run watch --exit-status`: the loop goes on, or ends with the step.    *)
Watch ==
    /\ pc = "watch"
    /\ Over(watched)
    /\ pc' = IF ~Passed(watched) THEN "failed" ELSE IF plan = {} THEN "done" ELSE "dispatch"
    /\ UNCHANGED << parent, judge, registryVars, runs, plan, watched, events, first, stray,
                    quiet, apart >>

(* A call to GitHub fails - also for want of a run to watch - or the job     *)
(* runs into its time limit; the build runs go on.                           *)
RefreshFails ==
    /\ pc \in {"dispatch", "list", "watch"}
    /\ pc' = "failed"
    /\ UNCHANGED << parent, judge, registryVars, runs, plan, watched, events, first, stray,
                    quiet, apart >>
-----------------------------------------------------------------------------
Becomes(i, r) ==
    /\ runs' = [runs EXCEPT ![i] = r]
    /\ UNCHANGED << parent, judge, refreshVars, events, first, stray >>

Register(i) ==
    /\ runs[i].stage = "accepted"
    /\ Becomes(i, [runs[i] EXCEPT !.stage = "queued"])
    /\ UNCHANGED << registryVars, quiet, apart >>

(* `clade build <node>` reads the digest of the base for the label, past the *)
(* cache; a failed reading leaves the label out.                             *)
Resolve(i) ==
    /\ runs[i].stage = "queued"
    /\ \E l \in {baseOf(i).id, 0} :
          /\ Becomes(i, [runs[i] EXCEPT !.stage = "resolved", !.label = l])
          /\ quiet' = (quiet /\ (l # 0 \/ judge[runs[i].node] = "created"))
    /\ UNCHANGED << registryVars, apart >>

Making(i) == runs[i].stage \in {"building", "built"}

(* docker resolves the base once more ...                                    *)
Docker(i) ==
    /\ runs[i].stage = "resolved"
    /\ baseOf(i).id # 0
    /\ Becomes(i, [runs[i] EXCEPT !.stage = "building", !.from = baseOf(i).id])
    /\ apart' = (apart /\ \A j \in DOMAIN runs :
                    Making(j) => /\ runs[j].node # parent[runs[i].node]
                                 /\ runs[i].node # parent[runs[j].node])
    /\ UNCHANGED << registryVars, quiet >>

(* ... and stamps the image when it is made, before it is pushed.           *)
Make(i) ==
    /\ runs[i].stage = "building"
    /\ lastMade' = lastMade + 1
    /\ Becomes(i, [runs[i] EXCEPT !.stage = "built", !.created = lastMade + 1])
    /\ UNCHANGED << held, lastId, past, quiet, apart >>

(* Mutant of Labelled: the digest is read when the image has been built.    *)
LabelledLate(i) == baseOf(i).id

Labelled(i) == runs[i].label

Hold(n, image) ==
    /\ held' = [held EXCEPT ![n] = image]
    /\ past' = [past EXCEPT ![n] = @ \cup {image}]
    /\ lastId' = lastId + 1

(* The image is there, though the run may fail over its other tags.         *)
Push(i) ==
    /\ runs[i].stage = "built"
    /\ Hold(runs[i].node, [id |-> lastId + 1, created |-> runs[i].created,
                            label |-> Labelled(i), from |-> runs[i].from])
    /\ \E stage \in {"success", "failure"} :
          Becomes(i, [runs[i] EXCEPT !.stage = stage, !.id = lastId + 1])
    /\ UNCHANGED << lastMade, quiet, apart >>

(* Anything else that ends a run, as a node its own graph does not have.     *)
JobFails(i) ==
    /\ runs[i].stage \in {"queued", "resolved", "building", "built"}
    /\ Becomes(i, [runs[i] EXCEPT !.stage = "failure"])
    /\ UNCHANGED << registryVars, quiet, apart >>

Job(i) == Resolve(i) \/ Docker(i) \/ Make(i) \/ Push(i)

(* Somebody dispatches the build workflow by hand.                          *)
Foreign ==
    /\ Event
    /\ \E n \in Nodes : runs' = Append(runs, Run(n, FALSE))
    /\ quiet' = FALSE
    /\ UNCHANGED << parent, judge, registryVars, refreshVars, first, stray, apart >>

(* An upstream image is pushed, at once or some time after it was made.     *)
UpstreamMoves ==
    /\ Event
    /\ \E age \in Ages :
          /\ age <= lastMade + 1
          /\ Hold(0, Plain(lastId + 1, lastMade + 1 - age))
          /\ lastMade' = IF age = 0 THEN lastMade + 1 ELSE lastMade
          /\ apart' = (/\ apart
                       /\ age = 0
                       /\ \A j \in DOMAIN runs : Making(j) => parent[runs[j].node] # 0)
    /\ quiet' = FALSE
    /\ UNCHANGED << parent, judge, runs, refreshVars, first, stray >>

RefreshNext == Dispatch \/ List \/ Watch
RunsNext == \E i \in DOMAIN runs : Register(i) \/ Job(i)

Next == \/ Refresh \/ RefreshNext \/ RefreshFails
        \/ RunsNext \/ (\E i \in DOMAIN runs : JobFails(i))
        \/ Foreign \/ UpstreamMoves

(* The refresh job goes on, and GitHub with the runs it has accepted.  A run *)
(* that cannot build on a missing base fails.                                *)
DispatchSpec ==
    /\ Init /\ [][Next]_dispatchVars
    /\ WF_dispatchVars(RefreshNext)
    /\ WF_dispatchVars(RunsNext)
    /\ WF_dispatchVars(\E i \in DOMAIN runs :
          JobFails(i) /\ runs[i].stage = "resolved" /\ baseOf(i).id = 0)
-----------------------------------------------------------------------------
Today == {i \in DOMAIN runs : i >= first /\ runs[i].own}

(* refresh.yaml: each build is waited for "so an internal base is pushed     *)
(* before its dependents build": a run is on the image that today's run for  *)
(* its base pushed, or on a later one - as long as each dispatched run had   *)
(* registered when the newest was looked up.                                 *)
BaseFirst ==
    ~stray => \A i, j \in Today :
       (runs[i].node = parent[runs[j].node] /\ runs[j].from # 0) =>
          runs[i].id # 0 /\ runs[j].from >= runs[i].id

(* A failed build fails the loop: nothing is dispatched on top of it.        *)
StopsOnFailure ==
    ~stray => \A i, j \in Today : i < j => runs[i].stage = "success"

(* Whatever raced, failed or went by the cache: a node that is not on its    *)
(* base's present image is outdated for whoever reads the registry next, if  *)
(* it is judged by digest.  If it is judged by created, as the default chain *)
(* does, only as long as no base was made or pushed while a dependent was    *)
(* being built and no upstream image was pushed later than it was made.      *)
NothingHidden ==
    \A n \in Nodes :
       (held[n].from # held[parent[n]].id /\ (judge[n] = "digest" \/ apart)) =>
          n \in OutdatedIn(held)

(* docs/port.md: "If `ghcr.io/me/base` is rebuilt, every descendant is       *)
(* considered outdated and rebuilt on top of the fresh base."  It is not,    *)
(* under the default chain, when it was built while the base was.            *)
RebuiltBaseShows ==
    \A n \in Nodes :
       (parent[n] # 0 /\ held[n].from # held[parent[n]].id) => n \in OutdatedIn(held)

(* A day that ends with "done" leaves nothing outdated, unless no build was   *)
(* asked for, the cache hid something, a label that digest reads was left     *)
(* out, the wrong run was watched, or somebody else dispatched or pushed.     *)
DoneIsSettled == (pc = "done" /\ quiet) => OutdatedIn(held) = {}

(* The refresh job comes to an end, also when a build fails.                 *)
RefreshEnds == pc \in {"dispatch", "list", "watch"} ~> pc \in {"done", "failed"}
-----------------------------------------------------------------------------
Image == [id : Nat, created : Nat, label : Nat, from : Nat]

Stages == {"accepted", "queued", "resolved", "building", "built", "success", "failure"}

BuildRuns == [node : Nodes, own : BOOLEAN, stage : Stages, label : Nat, from : Nat,
              created : Nat, id : Nat]

Rooted == parent \in Seq(Nat) /\ \A n \in Nodes : parent[n] < n

DispatchTypeOK ==
    /\ Rooted
    /\ judge \in [Nodes -> {"created", "digest"}]
    /\ held \in [Refs -> Image]
    /\ lastId \in Nat /\ lastMade \in Nat
    /\ runs \in Seq(BuildRuns)
    /\ pc \in {"idle", "dispatch", "list", "watch", "done", "failed"}
    /\ plan \subseteq Nodes
    /\ watched \in 0..Len(runs)
    /\ events \in Nat
    /\ past \in [Refs -> SUBSET Image]
    /\ first \in 1..(Len(runs) + 1)
    /\ stray \in BOOLEAN
    /\ quiet \in BOOLEAN /\ apart \in BOOLEAN

(* An image has a greater number than those it was built on or labelled     *)
(* with, and a tag only ever moves to a greater one.                        *)
Numbered ==
    /\ held[0].id # 0
    /\ \A n \in Refs : held[n].id <= lastId /\ held[n].from <= lastId
    /\ \A n \in Nodes : /\ held[n].label <= held[n].from
                        /\ held[parent[n]].id # 0 => held[n].from <= held[parent[n]].id
    /\ \A i \in DOMAIN runs :
          /\ runs[i].id <= held[runs[i].node].id
          /\ runs[i].label <= baseOf(i).id /\ runs[i].from <= baseOf(i).id
          /\ Making(i) => runs[i].from # 0 /\ runs[i].label <= runs[i].from
          /\ runs[i].stage = "success" => runs[i].id # 0
          /\ runs[i].stage \in {"accepted", "queued", "resolved"} => runs[i].from = 0

(* As long as builds of a base and of a dependent stay apart, what is not on *)
(* its base's present image was made before it, and so was what will not be  *)
(* on the image that is about to be pushed.                                  *)
MadeInOrder ==
    /\ \A n \in Refs : held[n].created <= lastMade
    /\ \A i \in DOMAIN runs : runs[i].created <= lastMade
    /\ apart =>
          /\ \A i \in DOMAIN runs : Making(i) => runs[i].from = baseOf(i).id
          /\ \A i, j \in DOMAIN runs :
                (Making(i) /\ Making(j)) => runs[i].node # parent[runs[j].node]
          /\ \A i \in DOMAIN runs, n \in Nodes :
                (runs[i].stage = "built" /\ parent[n] = runs[i].node) =>
                   held[n].created < runs[i].created
          /\ \A n \in Nodes :
                (held[n].id # 0 /\ held[parent[n]].id # 0
                 /\ held[n].from # held[parent[n]].id) =>
                   held[n].created < held[parent[n]].created

(* The order of the graph is the order of the runs.                         *)
DayOrder ==
    /\ \A i, j \in Today : i < j => runs[i].node < runs[j].node
    /\ \A i \in Today, n \in plan : runs[i].node < n

(* Each run of today was waited for before the next.                        *)
Waited ==
    /\ pc = "list" => Today # {}
    /\ pc = "done" => plan = {}
    /\ ~stray => /\ StopsOnFailure
                 /\ pc \in {"dispatch", "done"} => \A i \in Today : runs[i].stage = "success"
                 /\ pc = "watch" => watched \in Today /\ \A i \in Today : i <= watched

(* On a day nobody interferes with, what is not up to date is planned or     *)
(* under way, with all that is built on it.                                  *)
Covered(n) == n \in plan \/ \E i \in Today : runs[i].node = n

Follows(i) ==
    /\ (judge[runs[i].node] = "digest" /\ (runs[i].stage = "resolved" \/ Making(i))) =>
          runs[i].label = baseOf(i).id
    /\ runs[i].stage = "built" => baseOf(i).created < runs[i].created

UnderWay ==
    quiet => /\ ~stray
             /\ \A i \in DOMAIN runs : i < first => Over(i)
             /\ \A i \in DOMAIN runs : i >= first => runs[i].own
             /\ \A i \in Today : Follows(i)
             /\ \A n \in Nodes : (parent[n] # 0 /\ Covered(parent[n])) => Covered(n)
             /\ \A n \in Nodes : Stale(held, n) =>
                   \/ n \in plan
                   \/ \E i \in Today : runs[i].node = n /\ runs[i].stage # "success"

RunsInv ==
    /\ DispatchTypeOK
    /\ Numbered
    /\ DayOrder
    /\ Waited
    /\ BaseFirst
    /\ UnderWay

(* The inductive invariant.                                                  *)
DispatchInv == RunsInv /\ MadeInOrder
=============================================================================
