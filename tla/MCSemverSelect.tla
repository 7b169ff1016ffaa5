---------------------------- MODULE MCSemverSelect ----------------------------
(* Listings of up to three tags in any order out of full versions, partial   *)
(* ones, a pre-release and a word, and every pair of small limits.           *)
EXTENDS SemverSelect

V(n) == [n |-> n, pre |-> ""]

MCPres == {"", "alpine"}
MCRepos == {"r"}
MCConfigs == {}

SampleTags == {V(<<1, 0, 0>>), V(<<1, 0>>), V(<<1>>), V(<<1, 1, 2>>), V(<<1, 1, 1>>),
               V(<<2, 0, 1>>), V(<<2, 1>>), V(<<3>>),
               [n |-> <<3, 1, 1>>, pre |-> "alpine"], [n |-> <<>>, pre |-> ""]}

(* Long listings exercise both limits at once.                               *)
LongListings ==
    {<< V(<<1, 0>>), V(<<2, 0, 1>>), V(<<1, 1, 1>>), V(<<2, 1>>), V(<<3>>), V(<<1, 1, 2>>),
        V(<<1, 0, 0>>), V(<<1, 2>>) >>,
     << V(<<3>>), V(<<2, 1>>), V(<<2, 0, 1>>), V(<<2>>), V(<<1, 2>>), V(<<1, 1, 1>>) >>}

MCListings == UNION {[1..n -> SampleTags] : n \in 0..3} \cup LongListings

MCSelectors == [lastMajor : 0..2, lastMinor : 0..2, pre : MCPres]
=============================================================================
