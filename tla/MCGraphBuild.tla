----------------------------- MODULE MCGraphBuild -----------------------------
(* A base port with a floating tag and a port on top of it that also builds  *)
(* on the floating tag, under every chain; an http port; an http port whose  *)
(* compare list is not empty.  The registry holds any mix of old, new and    *)
(* missing images, and one more image moves at any point of the marking.     *)
EXTENDS GraphBuild

MCRepos == {"a", "b", "up"}
MCPres == {""}

V(n) == [n |-> n, pre |-> ""]
T(k) == [components |-> k, pre |-> ""]
Sel(major, minor) == [lastMajor |-> major, lastMinor |-> minor, pre |-> ""]

P(kind, src, repo, ch) ==
    [kind |-> kind, src |-> src, repo |-> repo, sel |-> Sel(0, 0),
     tmpls |-> << T(3), T(1) >>, chain |-> ch]

Default == << "created", "digest" >>
ByDigest == << "digest", "created" >>

MCConfigs == {
    << P("container", "up", "a", Default), P("container", "a", "b", Default) >>,
    << P("container", "a", "b", ByDigest), P("container", "up", "a", Default) >>,
    << P("container", "up", "a", ByDigest), P("container", "a", "b", << >>) >>,
    << P("http", "", "a", << >>), P("container", "a", "b", ByDigest) >>,
    << P("http", "", "a", ByDigest) >>
}

MCListings == [r \in MCRepos \cup {""} |-> {<< V(<<1, 1, 2>>) >>}]

R(repo, n) == RefOf(repo, V(n))
Up == R("up", <<1, 1, 2>>)
Own == {R("a", <<1, 1, 2>>), R("b", <<1, 1, 2>>), R("b", <<1, 0, 0>>)}

Old == [created |-> 1, digest |-> "d1", label |-> "none"]
New == [created |-> 2, digest |-> "d2", label |-> "d1"]

MCDigests == {"d1", "d2"}
MCImages == {Old, New, Missing}

(* The floating tag a:1 is on the image of a:1.1.2 or missing (a push that   *)
(* failed half way).  The cache is empty, or still answers for one image     *)
(* with what an earlier run read.                                            *)
Regs ==
    {[r \in Own \cup {Up, R("a", <<1>>)} |->
         CASE r = Up -> u
           [] r = R("a", <<1>>) -> IF f THEN own[R("a", <<1, 1, 2>>)] ELSE Missing
           [] OTHER -> own[r]] :
       own \in [Own -> MCImages], u \in {Old, New}, f \in BOOLEAN}

Caches == {[r \in S |-> Old] : S \in {{}, {Up}, {R("a", <<1, 1, 2>>)}, {R("a", <<1>>)}}}

MCWorlds == [reg : Regs, cached : Caches]

MCPushes == (Own \cup {Up, R("a", <<1>>)}) \X MCImages
=============================================================================
