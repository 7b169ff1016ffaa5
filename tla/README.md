# A formal model of clade

clade keeps a family of container images up to date. A *port* names where new
versions come from (`source`), which of them to keep (`select`), how to judge
an existing image (`compare`) and what to push (`build`). `clade outdated`
expands the ports into a graph of target images and marks the stale ones,
`clade build` builds them in order, and a scheduled workflow does both.

This directory holds TLA+ models of that, TLC runs over small instances, and
TLAPS proofs for all instances. `PROJECT.json` is the index: components, runs,
mutants, the source lines each definition stands for, findings, hazards and
theorems.

## Inventory

| Component | State | Operations | What is hard about it |
| --- | --- | --- | --- |
| `port` | the list of ports | `Load`, `LoadAll`, `Validate` | only the shapes it lets through matter to the rest |
| `tag` (semver, calver) | none; loops over a listing | `Select` | lenient versions, ties, two nested limits, a result that must descend |
| `source` | none | `Versions` | may fail; its answer differs from run to run |
| `graph.topoSort` | in-degrees, queue, order | seed, pop, visit, cycle error | shared `build.repo`, self-sourced ports, non-container ports with a repository |
| `graph.Build` | nodes, owner of each reference, tags produced per repository | expand a port, render, add a node | references rendered twice, bases that are floating tags, order of producers |
| `graph.markOutdated` | memo of look-ups, flags | look up target, look up base, compare | the registry moves between look-ups; propagation |
| `compare` | none | `created`, `digest`, chain | the first comparator that can judge decides: in the default chain that is always `created`, and `digest` is never asked |
| `registry` cache | files in a directory that processes share | `Get`, `Set`, `Entries`, `Remove`, `Clear`, `Tags`, `Stat` | no locks: torn files, evictions of fresh entries, write-back of old ones, kills |
| `registry.Remote` | the registry itself | `Tags`, `Stat` | external and moving |
| `cmd cache` | the same directory | `ls`, `rm`, `rm --all` | listing, reading and removing are separate steps |
| `cmd build`, `builder` | targets left, the registry | select, label, docker, push | the base is resolved twice, tags are pushed one by one, a failure ends the run |
| `cmd outdated`, `cmd graph` | none | select the outdated nodes, print the tree | in-place rebuilds and floating-tag bases in the tree; a file that holds some of the nodes |
| workflows | the plan, the build runs GitHub holds | plan, dispatch, list, watch; build one node | each job computes its own graph behind its own cache; the run that is watched is guessed; runs fail or register late |
| config, telemetry, version, generated code, Dockerfile generator | - | - | not part of the logic |

They interact by calls within one process (`cmd` -> `graph` -> `source`, `tag`,
`compare`, `registry`; `cmd build` -> `builder` -> docker), through the cache
directory between processes, and through the registry between runs, jobs and
the rest of the world. Nothing in clade runs concurrently within a process:
the concurrency is that of processes on one directory and of everyone on one
registry.

What makes each part correct: the sort lists a port after its upstream and
tells cycles right; the expansion gives each reference one owner, floating tags
to the newest version, and every node its parent; the marking is exact when
nothing moves and consistent when something does; the cache never answers with
something older than its ttl and never hides a new image; a build run builds
dependents on what it rebuilt, records a digest that misses no later update,
converges, and loses no work when it is cut short; the tree shows every node
once; and the workflows build a dependent after its base, or leave it outdated
for the next day as far as its comparator can see that.

## Modules

| Module | Models | EXTENDS / INSTANCE |
| --- | --- | --- |
| `Ports` | port records, producers and edges | |
| `TopoOrder` | abstract: what `topoSort` promises | `Ports` |
| `TopoSort` | `topoSort`, one step per loop iteration | `Ports`, INSTANCE `TopoOrder` WITH its order and verdict |
| `Semver` | the semver selection as a set, rendering of tags | `Ports` |
| `SemverSelect`, `SelectProofs` | the loops of `semverSelector.Select` | `Semver` |
| `CalverSelect`, `CalverProofs` | `calverSelector.Select`, `parse` segment by segment | |
| `Expand` | `graph.Build` up to `markOutdated` | `TopoSort`, `Semver` |
| `RenderTree` | the tree of `clade graph` over any selection of the nodes | `Expand` |
| `GraphBuild` | all of `graph.Build`, over a cache and a moving registry | `Expand` |
| `BuildRun` | `clade build`: graph, selection, docker, pushes | `GraphBuild` |
| `TtlCache` | abstract: what `registry.WithCache` promises its callers | |
| `FileCache` | the decorator over `FileCache`, several processes, `cache ls` and `cache rm` | INSTANCE `TtlCache` WITH its answers and the entries stamped so far |
| `Dispatch` | the refresh and build workflows, GitHub in between | |
| `MC*` | constants for TLC | the module checked |
| `OrderLemmas` | facts about numbers, lists and recursive functions that several proofs cite | the library's theorem modules, `TLAPS` |
| `ExpandProofs` | theorems about `TopoSort`, `Expand` and `RenderTree` | `RenderTree`, `OrderLemmas` |
| `GraphProofs`, `BuildRunProofs` | theorems about `GraphBuild` and `BuildRun`, each on top of the one before | the module, `ExpandProofs`, `GraphProofs` |
| `DispatchProofs`, `FileCacheProofs` | theorems about `Dispatch` and `FileCache` | the module, `OrderLemmas`, `TLAPS` |

How state corresponds to code:

* A port is named by its position in the list that `LoadAll` returns, a node by
  its position in the node list. `indeg`, `queue`, `out`, `expanded`, `nodes`,
  `stats`, `outdated` are the variables of those names in `graph.go`; `owner`
  is `node_by_id`; `by_repo` is the relation `Produces` (the last port of a
  repository wins).
* A tag is its numeric components and its pre-release. `1`, `1.0` and `1.0.0`
  are different tags and equal versions, as `semver.NewVersion` has it. A build
  tag template renders one to three components and a fixed suffix, or fails.
* For calver a tag is a sequence of digits and other characters and a layout a
  sequence of literals and tokens; `i` and `cv` are the variables of `parse`,
  `si` its loop counter. `MaxInt` stands for the largest number `Atoi` reads.
* An image is its creation time, its digest, and the value of the label that
  the port's digest strategy reads. `Missing` is `ErrNotExist`.
* A cache file is absent, torn (not the JSON of an entry) or an entry with or
  without its key. `os.WriteFile` is two steps, the open that truncates and the
  write; a process that has opened a file that is then unlinked writes to no
  one; two writers may leave a mixture. A process may be killed at every step.
* `cached` in `GraphBuild` holds the entries of the cache that are fresh for
  the whole of a run, with what an earlier run read; `TtlCache` says which those
  can be. An entry that expires before it is asked for is as good as absent, one
  that expires between two look-ups is hidden by the memo of `stat`.
* `cmd` in `FileCache` is a running `clade cache` command: the names it has
  globbed and not read (`names`), the entries found, the keys it has still to
  remove (`targets`), what `ls` prints (`shown`); `since` is the time that
  `Entries` notes, `before` and `touched` are history.
* In `Dispatch` a node is its position in the graph and `judge` the head of its
  chain: `created`, as in every port of `ports/`, which all leave `compare` out,
  or `digest`. An image has a number (its digest), its place in the order in
  which images were made (`created`), the number of its base that it is labelled
  with, and the one it was built on. It is made before it is pushed, so that the
  two orders differ: `Docker` resolves the base, `Make` stamps the image, `Push`
  moves the tag. An upstream image may be pushed long after it was made (`Ages`).
  A build run is one record that goes from "accepted" through "queued",
  "resolved", "building" and "built" to "success" or "failure"; it is the build
  command of module `BuildRun` for one node, seen from outside. `past` is all the
  registry ever held, which a restored cache may still answer with (more than a
  ttl lets it), `plan` what is left of the list in the job's output: it is kept as
  a set, since the list has the order of the graph, and `IsNext` takes its first
  node.
* A cache entry may hold `Absent` in the place of an image. `Stat` never puts
  such an entry aside, since it returns before it calls `Set` (`Found`); that none
  is ever in the directory is a part of `CacheInv` (`Kept`), not of the type.
* `mark`, `pc` and `bpc` say where the one goroutine is: between two of their
  steps lies a call to the registry, the file system or docker, or nothing that
  others can see.

Each action stands for a whole loop iteration or handler section, with the
early returns as its guards; error returns are actions of their own
(`OpenFails`, `RenderFails`, `StatFails`, `SpecFails`, `DockerFails`, `GiveUp`,
`JobFails`, `RefreshFails`).

A definition introduced by "Mutant of X" is X with a bug one could write. The
specifications never use it; putting it in the place of X breaks the property
that `PROJECT.json` names, which shows that the property says something.

## Runs

| Run | Instance | Shows |
| --- | --- | --- |
| `expand` | all lists of up to 3 small ports over 3 repositories and an external one; eleven port lists of the shapes in use, several upstream listings each | the sort (`OrderSound`, `CycleVerdict`, `SortInv`, termination, refinement of `TopoOrder`), the expansion (ownership, parents, floating tags, completeness) and the tree (`TreeOnce`) |
| `expand_shared` | same | **violated**: with a shared `build.repo` a dependent misses versions |
| `semver_select` | all listings of up to 3 of 10 tags, two long ones; limits 0-2, two pre-releases | the invariant of all the loops (`SelectInv`), `SelectionExact`, `NewestFirst` |
| `calver_select` | eight layouts, all listings of up to 2 of 16 tags and two long ones, three filters, limits -1 to 2 | `ParsedExact`, `CalverExact`, and the invariant they follow from, `CalverInv` |
| `graph_build` | five port lists, every mix of old, new and missing images, an empty cache or one that lags behind in one image, one push at any point | exact and closed marking, one reading per image |
| `file_cache` | two interchangeable processes (symmetry), one key, ttl 1 and one that never expires, three clock readings, one push, old files | `TtlCache` is implemented, `BoundedReuse`, `MissingIsFresh` |
| `cache_rm` | one process, three keys of a host name and of a repository on a port of it, six command lines, files expired, fresh, without key or torn | `RmExact`, `LsExact` |
| `cache_rm_keyless` | same | **violated**: an entry without a stored key survives |
| `build_run` | four port lists, 24 registries behind an empty cache, seven behind one that is behind, five command lines, up to two pushes by others | `BuiltOnRebuilt`, `NoMissedUpdate`, `Converges`, `NothingLost`, and the invariant of a run, `BuildRunInv` |
| `build_relabel` | same, a port with a label of its own, no pushes by others | **violated**: an overridden digest label is never written |
| `dispatch` | a chain of two nodes with two events, standing in three ways; a chain of three and a fork of two with one event, every mix of missing, fresh and stale images; judged by `created`, by `digest`, the fork by one of each; upstream images pushed at once or three images after they were made | `BaseFirst`, `StopsOnFailure`, `NothingHidden`, `DoneIsSettled`, the invariant behind them, `DispatchInv`, and the job ends |
| `dispatch_default` | a chain of two judged by `created`, up to date, two events | **violated**: a dependent of a rebuilt base is taken for up to date |

Why the bounds are enough: the sort treats ports by their upstream alone, and
three ports give chains, forks, joins on a shared repository and every cycle
type. The selection compares tags pairwise within a line, lines within a
major, and majors; three tags fill one line, two lines or two majors, and the
long listings reach both limits at once. The calver layouts take every way a
token can end and every kind of token; two tags suffice since each is read by
itself, and the long listings hold equal versions. A verdict reads two images,
so one push falls before, between or after; a cache that hides the upstream
image, a target, its floating tag or both covers each look-up that can be
stale. A file has at most one reader-writer pair that matters at a time; two
processes give it, and two values and three clock readings separate fresh,
expiring and expired. A command touches a file once or twice and has one other
process to race with. A build run resolves a base twice, so two pushes by others
let it move away and back. Two events are two days, a day and a run by hand, or
a day and a move of the upstream image, two runs by hand that build a base and
its dependent at once, or one of them and a move; in a chain of three nodes the
second run is both a dependent and a base. An age of three puts an upstream image
before everything built in the run.

Bounds in the modules: `MaxMoves` (pushes by others in a run),
`NewDigests` (the images a run may build: docker names each by a digest that
was not used before, `Unused`), `MaxTime` and
`MaxPush` (clock and pushes of the cache; the clock starts at 2, so that an
entry can be past its expiry already), `MaxPorts` (small lists), the `events`
of a setup (starts of the refresh workflow, runs by hand and moves of the upstream
image together), the sets `Configs`, `Listings`, `Worlds`, `Pushes`, `Requests`,
`Commands`, `Hosted`, `OldFiles`, `Setups`, `Ages`. Deadlock is not checked where the
modelled run simply ends.

Fairness is assumed in two places. `FairExpandSpec` is weak fairness of the steps
of one goroutine that runs a loop without waiting for anything. `DispatchSpec` assumes
that the refresh job goes on, that GitHub registers and runs what it has
accepted, and that a build on a base that is missing fails; that anything else
fails, that people dispatch runs or push is possible and never assumed. No
fairness is assumed of the cache's processes or of docker, and no liveness is
claimed of them.

What `dispatch` does not promise: ten seconds are a guess, and `BaseFirst` and
`StopsOnFailure` say nothing of a day on which the newest registered run was
not the one just dispatched (`stray`). What such a day leaves behind depends on
the comparator, and `NothingHidden` says how:

* Judged by `digest`, a node that is not on its base's present image is outdated
  for whoever reads the registry next, whatever raced: the label is read before
  docker resolves the base.
* Judged by `created`, as all ports in `ports/` are, it is outdated only if
  nothing ever went on side by side (`apart`): no base was made or pushed, by a
  run or upstream, between the moment a dependent's docker resolved it and the
  dependent's own push, and no upstream image was made earlier than it was pushed.
  Otherwise the dependent can be newer than the base it was not built on, and no
  refresh finds it until the base is made anew: run `dispatch_default`. Nothing in the workflows keeps
  builds apart on days when a run is dispatched by hand or registers late, and
  nothing keeps upstreams from pushing what they made a while ago.

Also, the cache of the next day may still hide a change for a ttl, 24 hours by
default, as long as the schedule's period: `DoneIsSettled` needs a plan that saw
the registry as it is.

## Proofs

All for every value of the constants, under the named assumptions of the
modules (`PortsAssumption`, `ListingsAssumption`, `RegistryAssumption`,
`BuildAssumption`, `CacheAssumption`, `SelectAssumption`, `CalverAssumption`,
`DispatchAssumption`). They say that the constants have the right shape, and two
things of substance: at the start of a build no image is from the future
(`BuildAssumption`), and a graph lists a parent before its children
(`DispatchAssumption`, which `ExpandParentFirst` proves of `graph.Build`). TLC
evaluates all of them in the runs.

Every invariant and action property that a passing run checks is also a
theorem, in one case under a hypothesis (`Converges`, below).

### The graph: `ExpandProofs`, `GraphProofs`

* The sort. `SortInv` is inductive: a port is listed or queued exactly
  when the seeding loop has passed it and its in-degree is 0, and its in-degree
  is 1 exactly while its upstream is unlisted or its visit is outstanding.
  Without this count the order alone is not inductive. `OrderSound` follows.
  `CycleVerdict` needs one more part, that no circular set of ports ever gets a
  member listed, and, for the error, that the unlisted ports are circular.
  The refinement of `TopoOrder` maps `Pop` to `List` and `Finish` to `Succeed`
  or `ReportCycle`.
* The expansion. `ExpandInv` adds to the properties what the loops know: tags
  collected for a node are free (`GotFree`), produced tags are owned
  (`ExpandedOwned`), what is left of a port is older than what is done
  (`Descending`). With `OrderSound` of the sort this gives
  `ProducedBaseIsParent`: a base in some node's tags belongs to a producer that
  was expanded before. `CoveredIfDistinct` needs that of the port under
  expansion every tag is carried by a node or still to come (`CoverInv`), and
  that the tags of its upstream do not grow any more, since the only port that
  adds to them was listed before.
* The tree. `Lines` is defined by recursion on the depth; `IterationExists` in
  `OrderLemmas` shows that such a function exists, so that it can be unfolded
  (`WalkUnfold`). A primary tag names one node (`UniqueOwner`) and a node has one
  base, so a node is printed at one depth at most, and each line below the
  roots stands under the line of its base. As many depths as there are nodes
  would take more nodes than there are, so the walk ends (`WalkEnds`).
* The marking. Judged nodes stay as they were judged (`JudgedStable`), and a
  verdict rests on entries of the memo, which only grows; so `OutdatedClosed`
  and `OkWasRead` hold whatever `Move` does between two steps, and whatever the
  cache answers in the registry's place. `MarkingExact` takes two more facts
  while nothing moves: what was read is what is there, and a verdict is the
  parent's or the node's own (`MarkingInv`). Parents come first, so that
  `Lineage` can be unfolded from a node to its parent.

### A build: `BuildRunProofs`

A run takes only steps of the expansion and the marking while it computes its
graph and none of them afterwards (`RunExpands`), so that `GraphInv` holds
throughout and the graph stands once there are targets. `BuildRunInv` then
says, of every moment: nothing is done before the selection (`Begun`); targets
are built in the order of the graph (`InOrder`) and contain a target's
dependents (`TargetsClosed`); what is pushed is there unless others pushed over
it (`PushesShow`); the label about to be written is the digest of the base, now
or before (`LabelKnown`), and so is the one written (`Recorded`).

* `BuiltOnRebuilt` is part of it: a parent that is a target was built before
  and pushed whole, so that its image is what the base reference holds.
* `NoMissedUpdate` follows from `Recorded`.
* `NothingLost` needs `DueStands`: the verdict on a node that was due can only
  change when the run pushes an image of its lineage. A node left over under a
  rebuilt ancestor has a base newer than itself, by both comparators.
* `Converges` is proved for ports that do not build on their own repository,
  have a base where they have comparators, and read the label that the build
  writes (`Ordinary /\ OwnLabel = {}`). The others do start over: a port that
  builds on itself replaces its own base, a comparator without a base cannot
  judge or finds nothing, and an overridden label is never written (finding 3).
  The hypothesis is a condition on the port list, true of the ones clade keeps.
  It takes `BasesStand`: no base is replaced under an image of this run, because a
  base is carried by one node, the parent, which was built before.

### The workflows: `DispatchProofs`

`DispatchInv` has a part for each way in which things could go out of step.
`Numbered`: an image is newer than those it is built on or labelled with, and the
label is never newer than the base, which is `NothingHidden` for nodes judged by
`digest`, on every day. `MadeInOrder` is the same for `created`, with `apart` as its
hypothesis: a node that is not on its base's present image was made before that
image. It is not inductive alone: of the images about to be pushed it must know
that every present dependent is older, and that no dependent is under way at the
same time. Without `apart` none of this holds, only that nothing was made later than
`lastMade`. `DayOrder`: the day's runs are in the order of the
graph. `Waited`: each was waited for before the next, as long as the newest run
was the one just dispatched; this gives `StopsOnFailure`, and with `DayOrder`
that the base's run is over when the dependent's starts (`BaseFirst`).
`UnderWay`: on a quiet day everything that is stale is planned or under way,
and so is all that is built on it, hence nothing is left with an empty plan
(`DoneIsSettled`). `OutdatedIn` is defined by recursion from a node to its
parent; `OutdatedExists` gives the function, so that the definition can be
unfolded.

### The cache: `FileCacheProofs`

Every entry in the directory or on its way there was stamped by some `Set` for
that key with that expiry (`Kept`), and none of them remembers a missing image:
tearing, unlinking and writing back never make up an entry or change an expiry.
`MissingIsFresh` rests on the latter: an answer out of the cache is an image, so
that "missing" can only come from a look-up of this call. `BoundedReuse` and the refinement of
`TtlCache` follow; `known`, the history of stamped entries, is the refinement's
image of the directory. The commands only ever take files away
(`CacheInvCommand`). For what they leave, `CmdInv` follows each file that no
other process has touched since the command began (`Untouched`): one that was
asked for is gone or still in `targets`, one that was not is as it was, and a
readable one has been found or is still to be read. `RmExact` and `LsExact` are
this at the end of the command. `CmdInv` is proved only; the runs check what
follows from it.

### The selections: `SelectProofs`, `CalverProofs`

* semver. `LinesInv` is inductive with `LinesCover`: no version met so
  far is newer than the line kept for it. Without it a winner that comes later
  could be missed by the comparison with the line. `NewestFirst` follows from
  what is still to be met being older than what is returned. The truncations:
  `TakeInv` says of the lines passed which majors were entered and which minors
  of each were given (`MajorsExact`, `MinorsExact`, `WithinLimit`): a line was
  passed over only where its limit was reached by newer ones. At the end, when
  all lines are passed, this is `SelectionExact`. With it, `Selected` of module
  `Semver`, which the expansion uses, is what the loops compute.
* calver. A tag can be cut along a layout in several ways by the definition
  (`Cuts`, unfolded in `CutsUnfold`); `parse` finds one. `OnACut` says that it is
  always at the end of a cut of what it has read, so that nothing is kept that
  does not conform. For the converse, a literal that begins with no digit is
  found first just where the number before it ends (`ScanFinds`), so that any cut
  of the tag is the one `parse` is on (`WayGoesOn`). The truncation keeps what
  was taken in front of what is left (`Sorted`); no property of the order
  `Newer` is needed, as each step takes one that nothing left is newer than.
  What `Value` makes of the digits is never used: the theorem holds for any
  reading of numbers.

### Only model-checked

The liveness properties (`SortTerminates`, `RefreshEnds`), which
the prover cannot do, and with them that the loops end at all. The four findings
are counterexamples and have no theorem. Recursive functions over a finite range
are reasoned about after a proof that they exist (`AncestorsExist`,
`IterationExists`, by a least counterexample); folds are not, so `Value` stays an
operator nothing is known of. Convergence outside `Ordinary` is checked on the
port lists of `build_run` and no further.

## Findings

1. Two ports with one `build.repo` (`expand_shared`): only the last of them is
   the repository's producer, and a dependent may be expanded before the other.
2. `cache rm <repo>` leaves entries that do not store their key
   (`cache_rm_keyless`).
3. The `label` option of the digest strategy has no counterpart in the build
   (`build_relabel`): such a port is rebuilt at every run.
4. Under the default chain a dependent that was built on the old base while the
   new one was built, and finished after it, is taken for up to date
   (`dispatch_default`): `created` only compares times, and `digest`, which would
   see it, is never asked.

Seen in the source and not checked by a run: `externalBases` knows nodes by their
primary tag only, so that a base that is a floating tag of a node is printed as
external, apart from it; an http port with a `compare` list has no base to compare
with, and the look-up of the empty reference fails the graph of all ports
(`StatFails` has that step, no property forbids it); a target whose push is cut
short after the primary tag keeps its other tags on the old image and is not due
(`NothingLost` excludes it).

## Not modelled

* The expansion selects by semver only. With calver it differs in that equal
  versions may come in either order, which `FloatingOnNewest` would have to
  allow for.
* docker, the registry protocol, credentials, multi-platform indexes. docker is
  taken to resolve the base in the registry; without `pull` it may use a local
  copy.
* YAML and JSON decoding, command lines, the layout of what is printed: labels
  and connectors of the tree, the listing of `clade outdated`, the columns of
  `cache ls`.
* Character-level keys: that `cache rm host` also matches `host:5000/...` is
  the relation `Hosted`, and `RmExact` lets it pass. The comment at
  `src/cmd/cache.go:192-194`, that the separator keeps out every repository that
  only shares a name stem, promises more than is checked.
* `MemCache`: one mutex around a map; it keeps the promise of `TtlCache`
  trivially.
* Two refresh jobs at a time: the workflow has no concurrency group, so a run
  by hand may overlap the scheduled one. In `Dispatch` the second one is a
  series of runs dispatched by others (`Foreign`).
* Configuration, telemetry, version, the entry point, generated protobuf code,
  the Dockerfile generator, CI: no state or order of their own.

## Plan

1. `Ports`, `TopoSort`, `Semver`, `Expand`, `GraphBuild`, `RenderTree`: the
   graph, the cache in front of it and the tree. Modelled, checked, proved.
2. `TtlCache`, `FileCache`: the cache and its commands. Modelled, checked, proved.
3. `BuildRun`: the build command. Modelled, checked, proved.
4. `SemverSelect`, `CalverSelect`: the selections. Modelled, checked, proved.
5. `Dispatch`: the workflows. Modelled, checked, proved.
6. Next: `Converges` for ports that build on their own repository, with the
   exact set of nodes that such a port leaves due; that the order in which
   `Select` returns versions is the one in which `Expand` takes them; a calver
   port in the expansion, with equal versions in either order.
