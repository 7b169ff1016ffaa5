------------------------------- MODULE MCExpand -------------------------------
(* Port lists of the shapes that ports/ and the docs have: a base port with  *)
(* floating tags under a second port (dev-golang, dev-payday), a fork, two   *)
(* ports that build one repository, an http port with a child, ports that    *)
(* rebuild their own repository (its floating tags only, or all tags in      *)
(* place), a cycle and a template that fails; and, for the sort, every list  *)
(* of up to MaxPorts ports over three repositories and one no port builds.   *)
EXTENDS RenderTree

CONSTANT MaxPorts

Small == {"x", "y", "z"}
MCRepos == {"a", "b", "c", "up", "ext"} \cup Small
MCPres == {"", "alpine"}

V(n) == [n |-> n, pre |-> ""]
T(k) == [components |-> k, pre |-> ""]
Alpine(k) == [components |-> k, pre |-> "alpine"]

Floating == << T(3), T(2), T(1) >>

Sel(major, minor) == [lastMajor |-> major, lastMinor |-> minor, pre |-> ""]

P(kind, src, repo, sel, tmpls) ==
    [kind |-> kind, src |-> src, repo |-> repo, sel |-> sel, tmpls |-> tmpls,
     chain |-> << "created", "digest" >>]

C(src, repo, sel, tmpls) == P("container", src, repo, sel, tmpls)

SmallPorts == {C(src, repo, Sel(0, 0), << T(3) >>) : src \in Small \cup {"ext"}, repo \in Small}

MCConfigs == UNION {[1..n -> SmallPorts] : n \in 0..MaxPorts} \cup {
    << C("a", "b", Sel(1, 1), Floating), C("up", "a", Sel(2, 3), Floating) >>,
    << C("up", "a", Sel(0, 0), Floating), C("a", "b", Sel(0, 0), Floating) >>,
    << C("up", "a", Sel(0, 0), << T(2), T(1) >>), C("a", "b", Sel(0, 1), Floating),
       C("b", "c", Sel(1, 0), << T(3) >>) >>,
    << C("up", "a", Sel(0, 0), Floating), C("a", "b", Sel(0, 0), << T(1) >>),
       C("a", "c", Sel(1, 1), << T(1), T(3) >>) >>,
    << P("http", "", "a", Sel(0, 0), Floating), C("a", "b", Sel(0, 0), << T(3) >>) >>,
    << C("up", "a", Sel(0, 0), << T(3), T(2) >>),
       C("up", "a", Sel(1, 0), << Alpine(3), T(2), T(1) >>),
       C("a", "b", Sel(0, 0), Floating) >>,
    << C("c", "a", Sel(0, 0), << T(3) >>), C("up", "a", Sel(0, 1), << Alpine(3), T(1) >>),
       C("a", "b", Sel(0, 0), Floating), C("up", "c", Sel(0, 0), << T(3) >>) >>,
    << C("a", "a", Sel(0, 0), << T(2), T(1) >>) >>,
    << C("a", "a", Sel(0, 0), Floating) >>,
    << C("b", "a", Sel(0, 0), Floating), C("a", "b", Sel(0, 0), Floating) >>,
    << C("up", "a", Sel(0, 0), << T(3), T(0) >>) >>
}

UpstreamLists == {
    << V(<<1, 0, 0>>) >>,
    << V(<<1>>), V(<<1, 1>>), V(<<1, 1, 2>>), V(<<1, 0, 1>>) >>,
    << V(<<1, 0, 1>>), V(<<1, 1, 2>>), V(<<2, 0, 1>>), V(<<2>>), V(<<2, 0>>) >>,
    << V(<<2>>), V(<<2, 1, 1>>), V(<<1, 1>>), V(<< >>) >>
}

MCListings == [r \in MCRepos \cup {""} |->
    CASE r = ""   -> {<< V(<<1, 2, 3>>) >>, << V(<<1, 2, 4>>) >>}
      [] r = "up" -> UpstreamLists
      [] r \in Small \cup {"ext"} -> {<< V(<<1, 2, 3>>) >>}
      [] OTHER    -> {<< >>, << V(<<1>>), V(<<1, 2>>), V(<<1, 2, 3>>) >>}]
=============================================================================
