------------------------------ MODULE MCBuildRun ------------------------------
(* A base port and a port on its floating tag, listed in either order and    *)
(* under either chain; an http port and a port on it; three ports in a row   *)
(* whose middle one is judged by existence only.  One image is moved by      *)
(* others, to a new one, back to an old one or out of the registry.          *)
EXTENDS BuildRun

MCRepos == {"a", "b", "c", "up"}
MCPres == {""}

V(n) == [n |-> n, pre |-> ""]
T(k) == [components |-> k, pre |-> ""]
Sel == [lastMajor |-> 0, lastMinor |-> 0, pre |-> ""]

P(kind, src, repo, tmpls, ch) ==
    [kind |-> kind, src |-> src, repo |-> repo, sel |-> Sel, tmpls |-> tmpls, chain |-> ch]

Both == << T(3), T(1) >>
One == << T(3) >>
Default == << "created", "digest" >>
ByDigest == << "digest", "created" >>

MCConfigs == {
    << P("container", "a", "b", One, Default), P("container", "up", "a", Both, Default) >>,
    << P("container", "up", "a", Both, ByDigest), P("container", "a", "b", One, ByDigest) >>,
    << P("http", "", "a", One, << >>), P("container", "a", "b", One, ByDigest) >>,
    << P("container", "up", "a", One, ByDigest), P("container", "a", "b", One, << >>),
       P("container", "b", "c", One, Default) >>
}

MCListings == [r \in MCRepos \cup {""} |-> {<< V(<<1, 1, 2>>) >>}]

R(repo, n) == RefOf(repo, V(n))
Up == R("up", <<1, 1, 2>>)
A == R("a", <<1, 1, 2>>)
A1 == R("a", <<1>>)
B == R("b", <<1, 1, 2>>)
B1 == R("b", <<1, 0, 0>>)
C == R("c", <<1, 1, 2>>)

MCDigests == {"d1", "d2", "d3", "n1", "n2", "n3"}
MCNewDigests == {"n1", "n2", "n3"}

I(t, d, l) == [created |-> t, digest |-> d, label |-> l]
Old == I(1, "d1", "none")
New == I(2, "d2", "none")

(* Upstream is old or new; what was built is missing, or was built on the    *)
(* old upstream image, or the floating tag was left behind.                  *)
Reg(u, a, f, b) ==
    [r \in {Up, A, A1, B, B1, C} |->
         CASE r = Up -> u
           [] r = A -> a
           [] r = A1 -> f
           [] r = B \/ r = B1 -> b
           [] r = C -> I(4, "d1", "d3")]

OnOld == I(2, "d2", "d1")
Regs == {Reg(u, a, f, b) : u \in {Old, New}, a \in {Missing, OnOld, I(1, "d2", "d2")},
                           f \in {Missing, OnOld}, b \in {Missing, I(3, "d3", "d2")}}

(* The cache is empty, or it still shows the upstream image of yesterday, or *)
(* the parent that an earlier job has rebuilt since.                         *)
Uncached == [reg : Regs, cached : {<< >>}]
Behind ==
    {[reg |-> Reg(New, a, OnOld, b), cached |-> [r \in {Up} |-> Old]] :
        a \in {Missing, OnOld}, b \in {Missing, I(3, "d3", "d2")}}
    \cup {[reg    |-> Reg(New, I(4, "d3", "d2"), I(4, "d3", "d2"), I(3, "d1", "d2")),
           cached |-> [r \in S |-> OnOld]] : S \in {{A}, {A1}, {A, A1}}}

MCWorlds == Uncached \cup Behind

MCPushes == ({Up} \X {Old, New, Missing}) \cup {<< A, New >>}

MCRequests == {
    [ids |-> {}, all |-> FALSE, push |-> TRUE],
    [ids |-> {}, all |-> TRUE, push |-> TRUE],
    [ids |-> {}, all |-> FALSE, push |-> FALSE],
    [ids |-> {B}, all |-> FALSE, push |-> TRUE],
    [ids |-> {B, B1}, all |-> FALSE, push |-> TRUE]
}
=============================================================================
