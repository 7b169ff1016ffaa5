----------------------------- MODULE ExpandProofs -----------------------------
(***************************************************************************)
(* From the sort of the ports to the printed tree, for every list of ports *)
(* and every listing: the order is sound, the cycle error is right both    *)
(* ways and topoSort implements TopoOrder; references are owned by one     *)
(* node, parents come first and are complete, floating tags sit on the     *)
(* newest version; the tree prints every image once.                       *)
(***************************************************************************)
EXTENDS RenderTree, OrderLemmas

(***************************************************************************)
(* The sort.                                                               *)
(***************************************************************************)

(* The list of ports is a sequence; its positions are 1..N.                  *)
LEMMA Positions ==
    ASSUME ports \in Configs
    PROVE  N \in Nat /\ Idx = 1..N
  BY PortsAssumption DEF N, Idx

(* A port has at most one upstream: the last port that builds its source.    *)
LEMMA OneUpstream ==
    ASSUME ports \in Configs,
           NEW u \in Idx, NEW v \in Idx, NEW c \in Idx,
           Feeds(ports, u, c), Feeds(ports, v, c)
    PROVE  u = v
  <1>1. u <= v /\ v <= u
    BY DEF Feeds, Produces, Idx
  <1>2. QED
    BY <1>1, Positions

LEMMA HeadTailRange ==
    ASSUME NEW S, NEW s \in Seq(S), s # << >>,
           \A i, j \in DOMAIN s : s[i] = s[j] => i = j
    PROVE  /\ Head(s) \in S
           /\ Tail(s) \in Seq(S)
           /\ {s[i] : i \in DOMAIN s}
                 = {Head(s)} \cup {Tail(s)[i] : i \in DOMAIN Tail(s)}
           /\ Head(s) \notin {Tail(s)[i] : i \in DOMAIN Tail(s)}
           /\ \A i, j \in DOMAIN Tail(s) : Tail(s)[i] = Tail(s)[j] => i = j
  <1>1. /\ Len(s) \in Nat
        /\ Len(s) >= 1
        /\ DOMAIN s = 1..Len(s)
        /\ DOMAIN Tail(s) = 1..(Len(s) - 1)
        /\ Head(s) = s[1]
        /\ Head(s) \in S
        /\ Tail(s) \in Seq(S)
    OBVIOUS
  <1>2. \A i \in DOMAIN Tail(s) : Tail(s)[i] = s[i + 1]
    OBVIOUS
  <1>3. \A i \in DOMAIN s : i = 1 \/ (i - 1 \in DOMAIN Tail(s) /\ s[i] = Tail(s)[i - 1])
    BY <1>1, <1>2
  <1>4. {s[i] : i \in DOMAIN s} = {Head(s)} \cup {Tail(s)[i] : i \in DOMAIN Tail(s)}
    <2>1. \A i \in DOMAIN Tail(s) : i + 1 \in DOMAIN s /\ s[i + 1] = Tail(s)[i]
      BY <1>1, <1>2
    <2>2. 1 \in DOMAIN s
      BY <1>1
    <2>3. ASSUME NEW i \in DOMAIN s
          PROVE  s[i] \in {Head(s)} \cup {Tail(s)[j] : j \in DOMAIN Tail(s)}
      BY <1>1, <1>3
    <2>4. ASSUME NEW i \in DOMAIN Tail(s)
          PROVE  Tail(s)[i] \in {s[j] : j \in DOMAIN s}
      BY <2>1
    <2>5. Head(s) \in {s[j] : j \in DOMAIN s}
      BY <1>1, <2>2
    <2>6. QED
      BY <2>3, <2>4, <2>5
  <1>5. Head(s) \notin {Tail(s)[i] : i \in DOMAIN Tail(s)}
    BY <1>1, <1>2
  <1>6. \A i, j \in DOMAIN Tail(s) : Tail(s)[i] = Tail(s)[j] => i = j
    BY <1>1, <1>2
  <1>7. QED
    BY <1>1, <1>4, <1>5, <1>6

-----------------------------------------------------------------------------
LEMMA SortInvInit == SortInit => SortInv
  <1> SUFFICES ASSUME SortInit PROVE SortInv
    OBVIOUS
  <1> USE DEF SortInit
  <1>0. N \in Nat /\ Idx = 1..N
    BY Positions
  <1>1. Listed = {} /\ Queued = {}
    BY DEF Listed, Queued
  <1>2. SortTypeOK
    BY <1>0 DEF SortTypeOK, Idx
  <1>3. Counted
    BY <1>0, <1>1 DEF Counted, Fed, Idx
  <1>4. NoRepeat /\ KidsFed /\ OrderSound /\ NoCircularListed
    BY <1>1 DEF NoRepeat, KidsFed, OrderSound, NoCircularListed
  <1>5. Phases
    BY DEF Phases
  <1>6. QED
    BY <1>2, <1>3, <1>4, <1>5 DEF SortInv
LEMMA SortInvSeed == SortInv /\ Seed => SortInv'
  <1> SUFFICES ASSUME SortInv, Seed PROVE SortInv'
    OBVIOUS
  <1> USE DEF Seed, Ready
  <1>0. N \in Nat /\ Idx = 1..N /\ N' = N /\ Idx' = Idx
    BY Positions DEF SortInv, SortTypeOK, N, Idx
  <1>1. /\ next \in Idx
        /\ queue \in Seq(Idx)
        /\ indeg \in [Idx -> 0..1]
        /\ out = << >> /\ kids = {} /\ verdict = "sorting"
    BY <1>0 DEF SortInv, SortTypeOK, Phases
  <1>2. Listed = {} /\ Listed' = {}
    BY <1>1 DEF Listed
  <1>3. next \notin Queued
    BY <1>0, <1>1 DEF SortInv, Counted
  <1>4. /\ queue' \in Seq(Idx)
        /\ Queued' = IF indeg[next] = 0 THEN Queued \cup {next} ELSE Queued
        /\ \A i, j \in DOMAIN queue' : queue'[i] = queue'[j] => i = j
    <2>1. CASE indeg[next] = 0
      <3>1. queue' = Append(queue, next)
        BY <2>1
      <3>2. \A i, j \in DOMAIN queue : queue[i] = queue[j] => i = j
        BY DEF SortInv, NoRepeat
      <3>3. \A i \in DOMAIN queue : queue[i] # next
        BY <1>3 DEF Queued
      <3>4. QED
        BY <2>1, <3>1, <3>2, <3>3, <1>1, AppendRange DEF Queued
    <2>2. CASE indeg[next] # 0
      BY <2>2, <1>1 DEF SortInv, NoRepeat, Queued
    <2>3. QED
      BY <2>1, <2>2
  <1>5. SortTypeOK'
    BY <1>0, <1>1, <1>4 DEF SortInv, SortTypeOK
  <1>6. Counted'
    <2>1. \A c \in Idx : c \in Queued' <=> (indeg[c] = 0 /\ c < next + 1)
      BY <1>0, <1>1, <1>2, <1>4 DEF SortInv, Counted
    <2>2. \A c \in Idx : indeg[c] = 1 <=>
             \E u \in Idx : Feeds(ports, u, c) /\ (u \notin Listed \/ c \in kids)
      BY DEF SortInv, Counted
    <2>3. QED
      BY <1>0, <1>2, <2>1, <2>2 DEF Counted
  <1>7. NoRepeat'
    BY <1>1, <1>2, <1>4 DEF NoRepeat
  <1>8. Phases'
    BY <1>0, <1>1 DEF Phases
  <1>9. KidsFed' /\ OrderSound' /\ NoCircularListed'
    BY <1>1, <1>2 DEF KidsFed, OrderSound, NoCircularListed
  <1>10. QED
    BY <1>5, <1>6, <1>7, <1>8, <1>9 DEF SortInv

LEMMA SortInvPop == SortInv /\ Pop => SortInv'
  <1> SUFFICES ASSUME SortInv, Pop PROVE SortInv'
    OBVIOUS
  <1> DEFINE p == Head(queue)
  <1>0. N \in Nat /\ Idx = 1..N /\ N' = N /\ Idx' = Idx
    BY Positions DEF SortInv, SortTypeOK, N, Idx, Pop
  <1>1. /\ queue \in Seq(Idx) /\ queue # << >>
        /\ out \in Seq(Idx)
        /\ indeg \in [Idx -> 0..1]
        /\ kids = {} /\ verdict = "sorting" /\ next = N + 1
    BY <1>0 DEF SortInv, SortTypeOK, Pop
  <1>2. \A i, j \in DOMAIN queue : queue[i] = queue[j] => i = j
    BY DEF SortInv, NoRepeat
  <1>3. /\ p \in Idx
        /\ queue' \in Seq(Idx)
        /\ Queued = {p} \cup Queued'
        /\ p \notin Queued'
        /\ \A i, j \in DOMAIN queue' : queue'[i] = queue'[j] => i = j
    <2>1. queue' = Tail(queue)
      BY DEF Pop
    <2>2. /\ p \in Idx
          /\ Tail(queue) \in Seq(Idx)
          /\ {queue[i] : i \in DOMAIN queue}
                = {p} \cup {Tail(queue)[i] : i \in DOMAIN Tail(queue)}
          /\ p \notin {Tail(queue)[i] : i \in DOMAIN Tail(queue)}
          /\ \A i, j \in DOMAIN Tail(queue) : Tail(queue)[i] = Tail(queue)[j] => i = j
      BY <1>1, <1>2, HeadTailRange
    <2>3. QED
      BY <2>1, <2>2 DEF Queued
  <1>4. /\ out' = Append(out, p)
        /\ out' \in Seq(Idx)
        /\ Len(out') = Len(out) + 1
        /\ Listed' = Listed \cup {p}
        /\ \A i \in DOMAIN out : i \in DOMAIN out' /\ out'[i] = out[i]
        /\ out'[Len(out) + 1] = p
        /\ \A i \in DOMAIN out' : i \in DOMAIN out \/ i = Len(out) + 1
    BY <1>1, <1>3, AppendRange DEF Pop, Listed
  <1>5. p \notin Listed /\ indeg[p] = 0
    BY <1>3 DEF SortInv, NoRepeat, Counted
  <1>6. \A u \in Idx : Feeds(ports, u, p) => u \in Listed
    BY <1>1, <1>3, <1>5 DEF SortInv, Counted
  <1>7. SortTypeOK'
    BY <1>0, <1>1, <1>3, <1>4 DEF SortInv, SortTypeOK, Pop
  <1>8. Counted'
    <2>1. \A c \in Idx : (c \in Listed' \/ c \in Queued') <=> (indeg[c] = 0 /\ c < next)
      BY <1>3, <1>4 DEF SortInv, Counted
    <2>2. \A c \in Idx : indeg[c] = 1 <=>
             \E u \in Idx : Feeds(ports, u, c) /\ (u \notin Listed' \/ c \in kids')
      <3> SUFFICES ASSUME NEW c \in Idx
                   PROVE  indeg[c] = 1 <=>
                            \E u \in Idx : Feeds(ports, u, c)
                                            /\ (u \notin Listed' \/ c \in kids')
        OBVIOUS
      <3>1. indeg[c] = 1 <=> \E u \in Idx : Feeds(ports, u, c) /\ u \notin Listed
        BY <1>1 DEF SortInv, Counted
      <3>2. c \in kids' <=> Feeds(ports, p, c)
        BY DEF Pop
      <3>3. QED
        BY <3>1, <3>2, <1>3, <1>4, <1>5
    <2>3. QED
      BY <1>0, <2>1, <2>2 DEF Counted, Pop
  <1>9. NoRepeat'
    <2>1. \A i \in DOMAIN out : out[i] # p
      BY <1>5 DEF Listed
    <2>2. \A i, j \in DOMAIN out' : out'[i] = out'[j] => i = j
      BY <1>4, <2>1 DEF SortInv, NoRepeat
    <2>3. Listed' \cap Queued' = {}
      BY <1>3, <1>4 DEF SortInv, NoRepeat
    <2>4. QED
      BY <1>3, <2>2, <2>3 DEF NoRepeat
  <1>10. Phases'
    BY <1>0, <1>1 DEF Phases, Pop
  <1>11. KidsFed'
    BY <1>4 DEF KidsFed, Pop
  <1>12. OrderSound'
    <2> SUFFICES ASSUME NEW i \in DOMAIN out', NEW u \in Idx, Feeds(ports, u, out'[i])
                 PROVE  \E j \in 1..(i - 1) : out'[j] = u
      BY <1>0, <1>9 DEF OrderSound, NoRepeat, Pop
    <2>1. Len(out) \in Nat /\ DOMAIN out = 1..Len(out)
      BY <1>1
    <2>2. CASE i \in DOMAIN out
      <3>1. PICK j \in 1..(i - 1) : out[j] = u
        BY <1>4, <2>2 DEF SortInv, OrderSound
      <3>2. j \in DOMAIN out
        BY <2>1, <2>2
      <3>3. QED
        BY <1>4, <3>1, <3>2
    <2>3. CASE i = Len(out) + 1
      <3>1. u \in Listed
        BY <1>4, <1>6, <2>3
      <3>2. PICK j \in DOMAIN out : out[j] = u
        BY <3>1 DEF Listed
      <3>3. QED
        BY <1>4, <2>1, <2>3, <3>2
    <2>4. QED
      BY <1>4, <2>2, <2>3
  <1>13. NoCircularListed'
    <2> SUFFICES ASSUME NEW S \in SUBSET Idx, Circular(S), p \in S
                 PROVE  FALSE
      BY <1>0, <1>4 DEF SortInv, NoCircularListed, Circular, Pop
    <2>1. PICK u \in S : Feeds(ports, u, p)
      BY DEF Circular
    <2>2. u \in Listed
      BY <1>6, <2>1
    <2>3. QED
      BY <2>1, <2>2 DEF SortInv, NoCircularListed
  <1>14. QED
    BY <1>7, <1>8, <1>9, <1>10, <1>11, <1>12, <1>13 DEF SortInv

LEMMA SortInvVisit == ASSUME NEW c \in Idx, SortInv, Visit(c) PROVE SortInv'
  <1>0. N \in Nat /\ Idx = 1..N /\ N' = N /\ Idx' = Idx
    BY Positions DEF SortInv, SortTypeOK, N, Idx, Visit, Ready, Lowered
  <1>1. /\ queue \in Seq(Idx)
        /\ indeg \in [Idx -> 0..1]
        /\ c \in kids /\ verdict = "sorting" /\ next = N + 1
        /\ kids \in SUBSET Idx
    BY <1>0 DEF SortInv, SortTypeOK, Phases, Visit, Ready, Lowered
  <1>2. PICK u \in Idx : u \in Listed /\ Feeds(ports, u, c)
    <2>1. out \in Seq(Idx)
      BY DEF SortInv, SortTypeOK
    <2>2. Listed \subseteq Idx
      BY <2>1 DEF Listed
    <2>3. QED
      BY <1>1, <2>2 DEF SortInv, KidsFed
  <1>3. \A v \in Idx : Feeds(ports, v, c) => v \in Listed
    BY <1>2, OneUpstream DEF SortInv, SortTypeOK
  <1>4. indeg[c] = 1
    BY <1>1, <1>2 DEF SortInv, Counted
  <1>5. /\ indeg' = [indeg EXCEPT ![c] = 0]
        /\ indeg'[c] = 0
        /\ queue' = Append(queue, c)
    BY <1>1, <1>4 DEF Visit, Ready, Lowered
  <1>6. c \notin Listed /\ c \notin Queued
    BY <1>1, <1>4 DEF SortInv, Counted
  <1>7. Listed' = Listed /\ kids' = kids \ {c}
    BY DEF Listed, Visit, Ready, Lowered
  <1>8. /\ queue' \in Seq(Idx)
        /\ Queued' = Queued \cup {c}
        /\ \A i, j \in DOMAIN queue' : queue'[i] = queue'[j] => i = j
    <2>1. \A i, j \in DOMAIN queue : queue[i] = queue[j] => i = j
      BY DEF SortInv, NoRepeat
    <2>2. \A i \in DOMAIN queue : queue[i] # c
      BY <1>6 DEF Queued
    <2>3. QED
      BY <1>1, <1>5, <2>1, <2>2, AppendRange DEF Queued
  <1>9. SortTypeOK'
    BY <1>0, <1>1, <1>5, <1>7, <1>8 DEF SortInv, SortTypeOK, Visit, Ready, Lowered
  <1>10. Counted'
    <2> SUFFICES ASSUME NEW d \in Idx
                 PROVE  /\ (d \in Listed' \/ d \in Queued') <=> (indeg'[d] = 0 /\ d < next)
                        /\ indeg'[d] = 1 <=>
                             \E v \in Idx : Feeds(ports, v, d)
                                             /\ (v \notin Listed' \/ d \in kids')
      BY <1>0 DEF Counted, Visit, Ready, Lowered
    <2>1. CASE d = c
      BY <2>1, <1>0, <1>1, <1>3, <1>5, <1>7, <1>8
    <2>2. CASE d # c
      <3>1. indeg'[d] = indeg[d]
        BY <1>1, <1>5, <2>2
      <3>2. QED
        BY <2>2, <3>1, <1>7, <1>8 DEF SortInv, Counted
    <2>3. QED
      BY <2>1, <2>2
  <1>11. NoRepeat'
    BY <1>6, <1>7, <1>8 DEF SortInv, NoRepeat, Visit, Ready, Lowered
  <1>12. Phases'
    BY <1>0, <1>1 DEF Phases, Visit, Ready, Lowered
  <1>13. KidsFed' /\ OrderSound' /\ NoCircularListed'
    BY <1>0, <1>7 DEF SortInv, KidsFed, OrderSound, NoCircularListed, Circular, Visit, Ready, Lowered
  <1>14. QED
    BY <1>9, <1>10, <1>11, <1>12, <1>13 DEF SortInv

LEMMA SortInvFinish == SortInv /\ Finish => SortInv'
  <1> SUFFICES ASSUME SortInv, Finish PROVE SortInv'
    OBVIOUS
  <1>0. N \in Nat /\ Idx = 1..N /\ N' = N /\ Idx' = Idx
    BY Positions DEF SortInv, SortTypeOK, N, Idx, Finish, Complete, Exhausted
  <1>1. next = N + 1
    BY <1>0 DEF SortInv, SortTypeOK, Finish, Complete, Exhausted
  <1>2. Listed' = Listed /\ Queued' = Queued
    BY DEF Listed, Queued, Finish, Complete, Exhausted
  <1>3. SortTypeOK'
    BY <1>0 DEF SortInv, SortTypeOK, Finish, Complete, Exhausted
  <1>4. Counted' /\ NoRepeat' /\ KidsFed' /\ OrderSound' /\ NoCircularListed'
    BY <1>0, <1>2 DEF SortInv, Counted, NoRepeat, KidsFed, OrderSound,
                      NoCircularListed, Circular, Finish
  <1>5. Phases'
    BY <1>0, <1>1 DEF Phases, Finish, Complete, Exhausted
  <1>6. QED
    BY <1>3, <1>4, <1>5 DEF SortInv

LEMMA SortInvStep == SortInv /\ [SortNext]_sortVars => SortInv'
  <1> SUFFICES ASSUME SortInv, [SortNext]_sortVars PROVE SortInv'
    OBVIOUS
  <1>1. CASE Seed
    BY <1>1, SortInvSeed
  <1>2. CASE Pop
    BY <1>2, SortInvPop
  <1>3. ASSUME NEW c \in Idx, Visit(c) PROVE SortInv'
    BY <1>3, SortInvVisit
  <1>4. CASE Finish
    BY <1>4, SortInvFinish
  <1>5. CASE UNCHANGED sortVars
    <2>1. /\ ports' = ports /\ indeg' = indeg /\ next' = next /\ queue' = queue
          /\ kids' = kids /\ out' = out /\ verdict' = verdict
          /\ Idx' = Idx /\ N' = N /\ Listed' = Listed /\ Queued' = Queued
      BY <1>5 DEF sortVars, Idx, N, Listed, Queued
    <2>2. SortTypeOK' /\ Phases'
      BY <2>1 DEF SortInv, SortTypeOK, Phases
    <2>3. Counted'
      BY <2>1 DEF SortInv, Counted
    <2>4. NoRepeat' /\ KidsFed' /\ OrderSound'
      BY <2>1 DEF SortInv, NoRepeat, KidsFed, OrderSound
    <2>5. NoCircularListed'
      BY <2>1 DEF SortInv, NoCircularListed, Circular
    <2>6. QED
      BY <2>2, <2>3, <2>4, <2>5 DEF SortInv
  <1>6. QED
    BY <1>1, <1>2, <1>3, <1>4, <1>5 DEF SortNext
-----------------------------------------------------------------------------
(* The order topoSort builds is sound at every step, whatever ports there    *)
(* are: the invariant SortInv is inductive.                                  *)
THEOREM SortInvariant == SortSpec => []SortInv
  <1>1. SortInit => SortInv
    BY SortInvInit
  <1>2. SortInv /\ [SortNext]_sortVars => SortInv'
    BY SortInvStep
  <1>3. QED
    BY <1>1, <1>2, PTL DEF SortSpec

(* Every port is listed at most once and after the port that feeds it.       *)
THEOREM SortOrderSound == SortSpec => []OrderSound
  <1>1. SortInv => OrderSound
    BY DEF SortInv
  <1>2. QED
    BY <1>1, SortInvariant, PTL

(* A list of ports without repetition that is as long as 1..N has all of     *)
(* them, and only such a list does.                                          *)
LEMMA AllListed == ASSUME SortInv PROVE Len(out) = N <=> Listed = Idx
  <1>0. N \in Nat /\ Idx = 1..N
    BY Positions DEF SortInv, SortTypeOK
  <1>1. out \in Seq(Idx) /\ DOMAIN out = 1..Len(out) /\ Len(out) \in Nat
    BY DEF SortInv, SortTypeOK
  <1>2. /\ IsFiniteSet(Idx) /\ Cardinality(Idx) = N
        /\ IsFiniteSet(DOMAIN out) /\ Cardinality(DOMAIN out) = Len(out)
    BY <1>0, <1>1, IntervalSize
  <1>3. Listed \subseteq Idx
    BY <1>1 DEF Listed
  <1>4. out \in Surjection(DOMAIN out, Listed)
    BY <1>1 DEF Surjection, Listed
  <1>5. out \in Bijection(DOMAIN out, Listed)
    BY <1>4 DEF Bijection, Injection, IsInjective, SortInv, NoRepeat, Surjection
  <1>6. IsFiniteSet(Listed) /\ Cardinality(Listed) = Len(out)
    BY <1>2, <1>5, FS_Bijection DEF ExistsBijection
  <1>7. QED
    BY <1>2, <1>3, <1>6, FS_Subset

(* "dependency cycle among ports" is returned exactly when there is one.     *)
THEOREM SortCycleVerdict == SortSpec => []CycleVerdict
  <1>1. SortInv => CycleVerdict
    <2> SUFFICES ASSUME SortInv PROVE CycleVerdict
      OBVIOUS
    <2>0. N \in Nat /\ Idx = 1..N
      BY Positions DEF SortInv, SortTypeOK
    <2>1. ASSUME verdict = "cycle" PROVE \E S \in SUBSET Idx : Circular(S)
      <3>1. Listed # Idx
        BY <2>1, AllListed DEF SortInv, Phases
      <3>2. Listed \subseteq Idx
        BY DEF SortInv, SortTypeOK, Listed
      <3>3. Queued = {} /\ kids = {} /\ next = N + 1
        BY <2>1 DEF SortInv, Phases, Queued
      <3>4. ASSUME NEW c \in Idx \ Listed
            PROVE  \E u \in Idx \ Listed : Feeds(ports, u, c)
        <4>1. indeg[c] # 0
          BY <2>0, <3>3, <3>4 DEF SortInv, Counted
        <4>2. indeg[c] = 1
          BY <4>1 DEF SortInv, SortTypeOK
        <4>3. QED
          BY <3>3, <4>2 DEF SortInv, Counted
      <3>5. Circular(Idx \ Listed)
        BY <3>1, <3>2, <3>4 DEF Circular
      <3>6. QED
        BY <3>5
    <2>2. ASSUME verdict = "sorted" PROVE \A S \in SUBSET Idx : ~Circular(S)
      <3>1. Listed = Idx
        BY <2>2, AllListed DEF SortInv, Phases
      <3>2. QED
        BY <3>1 DEF SortInv, NoCircularListed, Circular
    <2>3. QED
      BY <2>1, <2>2 DEF CycleVerdict
  <1>2. QED
    BY <1>1, SortInvariant, PTL

-----------------------------------------------------------------------------
LEMMA SameFeeds ==
    ASSUME NEW u, NEW c
    PROVE  Ordering!Feeds(ports, u, c) <=> Feeds(ports, u, c)
  BY DEF Ordering!Feeds, Feeds, Ordering!Produces, Produces

(* topoSort implements the abstract ordering: popping a port lists one that  *)
(* may be listed, and the verdict is the abstract one.                       *)
THEOREM SortRefinesOrder == SortSpec => RefinesTopoOrder
  <1>1. SortInit => Ordering!Init
    BY DEF SortInit, Ordering!Init
  <1>2. SortInv /\ [SortNext]_sortVars => [Ordering!Next]_Ordering!vars
    <2> SUFFICES ASSUME SortInv, [SortNext]_sortVars
                 PROVE  [Ordering!Next]_Ordering!vars
      OBVIOUS
    <2>0. N \in Nat /\ Idx = 1..N
      BY Positions DEF SortInv, SortTypeOK
    <2>1. CASE Seed
      BY <2>1 DEF Seed, Ready, Ordering!vars
    <2>2. CASE Pop
      <3> DEFINE p == Head(queue)
      <3>1. p \in Queued /\ p \in Idx
        <4>1. queue \in Seq(Idx) /\ queue # << >>
          BY <2>2 DEF Pop, SortInv, SortTypeOK
        <4>2. 1 \in DOMAIN queue /\ queue[1] = p /\ p \in Idx
          BY <4>1
        <4>3. QED
          BY <4>2 DEF Queued
      <3>2. p \notin Listed /\ indeg[p] = 0 /\ kids = {}
        BY <2>2, <3>1 DEF Pop, SortInv, NoRepeat, Counted
      <3>3. \A u \in Idx : Feeds(ports, u, p) => u \in Listed
        BY <3>1, <3>2 DEF SortInv, Counted
      <3>4. Ordering!List(p)
        BY <2>2, <3>1, <3>2, <3>3, SameFeeds
           DEF Pop, Ordering!List, Ordering!Listable, Ordering!Listed, Ordering!Idx,
               Listed, Idx
      <3>5. QED
        BY <3>1, <3>4 DEF Ordering!Next, Ordering!Idx, Idx
    <2>3. ASSUME NEW c \in Idx, Visit(c) PROVE UNCHANGED Ordering!vars
      BY <2>3 DEF Visit, Ready, Lowered, Ordering!vars
    <2>4. CASE Finish
      <3>1. Len(out) = N <=> Listed = Idx
        BY AllListed
      <3>2. CASE Len(out) = N
        BY <2>4, <3>1, <3>2
           DEF Finish, Complete, Exhausted, Ordering!Next, Ordering!Succeed, Ordering!Listed, Ordering!Idx,
               Listed, Idx
      <3>3. CASE Len(out) # N
        <4>1. next = N + 1 /\ Queued = {} /\ kids = {}
          BY <2>0, <2>4 DEF Finish, Complete, Exhausted, SortInv, SortTypeOK, Queued
        <4>2. \A q \in Idx \ Listed : \E u \in Idx : Feeds(ports, u, q) /\ u \notin Listed
          <5> SUFFICES ASSUME NEW q \in Idx \ Listed
                       PROVE  \E u \in Idx : Feeds(ports, u, q) /\ u \notin Listed
            OBVIOUS
          <5>1. indeg[q] # 0
            BY <2>0, <4>1 DEF SortInv, Counted
          <5>2. indeg[q] = 1
            BY <5>1 DEF SortInv, SortTypeOK
          <5>3. QED
            BY <4>1, <5>2 DEF SortInv, Counted
        <4>3. Ordering!ReportCycle
          BY <2>4, <3>1, <3>3, <4>2, SameFeeds
             DEF Finish, Complete, Exhausted, Ordering!ReportCycle, Ordering!Listable, Ordering!Listed,
                 Ordering!Idx, Listed, Idx
        <4>4. QED
          BY <4>3 DEF Ordering!Next
      <3>4. QED
        BY <3>2, <3>3
    <2>5. CASE UNCHANGED sortVars
      BY <2>5 DEF sortVars, Ordering!vars
    <2>6. QED
      BY <2>1, <2>2, <2>3, <2>4, <2>5 DEF SortNext
  <1>3. QED
    BY <1>1, <1>2, SortInvariant, PTL DEF SortSpec, RefinesTopoOrder, Ordering!Spec

(***************************************************************************)
(* The expansion.                                                          *)
(***************************************************************************)

LEMMA TagTypes ==
    ASSUME NEW t \in Tag
    PROVE  /\ Major(t) \in Nat /\ Minor(t) \in Nat /\ Patch(t) \in Nat
           /\ \A k \in Template : Render(k, t) \in Tag
  <1>1. \A i \in Nat : Component(t, i) \in Nat
    <2> SUFFICES ASSUME NEW i \in Nat PROVE Component(t, i) \in Nat
      OBVIOUS
    <2>1. t.n \in Seq(Nat)
      BY DEF Tag
    <2>2. QED
      BY <2>1 DEF Component
  <1>2. ASSUME NEW k \in Template PROVE Render(k, t) \in Tag
    <2>1. k.components \in Nat /\ k.pre \in Pres
      BY DEF Template
    <2>2. [i \in 1..k.components |-> Component(t, i)] \in Seq(Nat)
      BY <1>1, <2>1
    <2>3. QED
      BY <2>1, <2>2 DEF Render, Tag
  <1>3. QED
    BY <1>1, <1>2 DEF Major, Minor, Patch

LEMMA GreaterTransitive ==
    ASSUME NEW a \in Tag, NEW b \in Tag, NEW c \in Tag,
           GreaterThan(a, b), GreaterThan(b, c)
    PROVE  GreaterThan(a, c)
  BY TagTypes DEF GreaterThan, SameLine

(* The selection only ever returns tags of the list.                         *)
LEMMA SelectedListed ==
    ASSUME NEW sel, NEW ts \in Seq(Tag)
    PROVE  /\ Selected(sel, ts) \subseteq Tag
           /\ \A t \in Selected(sel, ts) : \E i \in DOMAIN ts : ts[i] = t
  BY DEF Selected, Winners

LEMMA PortTypes ==
    ASSUME ports \in Configs, NEW p \in Idx
    PROVE  /\ ports[p] \in Port
           /\ ports[p].repo \in Repos
           /\ ports[p].src \in Repos \cup {NoRepo}
           /\ ports[p].kind \in Kinds
           /\ ports[p].tmpls \in Seq(Template)
           /\ ports[p].kind = "container" => ports[p].src \in Repos
  <1>1. ports \in Seq(Port) /\ Valid(ports[p])
    BY PortsAssumption DEF Idx
  <1>2. ports[p] \in Port
    BY <1>1 DEF Idx
  <1>3. QED
    BY <1>1, <1>2 DEF Port, Valid

(* Some port is the last one to build a repository that is built at all.     *)
LEMMA LastProducer ==
    ASSUME ports \in Configs, NEW k \in Idx, NEW r, ports[k].repo = r
    PROVE  \E u \in Idx : Produces(ports, u, r)
  <1>0. N \in Nat /\ Idx = 1..N
    BY Positions
  <1> DEFINE B == {u \in 1..N : ports[u].repo = r}
  <1>1. PICK u \in B : \A v \in B : v <= u
    <2>1. B \in SUBSET (1..N) /\ k \in B
      BY <1>0
    <2>2. QED
      BY <1>0, <2>1, GreatestNatural
  <1>2. QED
    BY <1>0, <1>1 DEF Produces, Idx

(* What holds of the nodes alone is kept by every step that adds none.       *)
GraphPart == /\ NodeShape
             /\ UniqueOwner
             /\ ParentFirst
             /\ ExpandedOwned
             /\ InternalBase
             /\ FloatingOnNewest

LEMMA GraphPartStable ==
    ASSUME GraphPart, UNCHANGED << ports, nodes, owner, expanded >>
    PROVE  GraphPart'
  <1>1. NodeShape' /\ UniqueOwner' /\ ParentFirst'
    BY DEF GraphPart, NodeShape, UniqueOwner, ParentFirst, RefsOf
  <1>2. ExpandedOwned' /\ InternalBase'
    BY DEF GraphPart, ExpandedOwned, InternalBase
  <1>3. FloatingOnNewest'
    <2>1. FloatingOnNewest
      BY DEF GraphPart
    <2>2. QED
      BY <2>1, ZenonT(60) DEF FloatingOnNewest
  <1>4. QED
    BY <1>1, <1>2, <1>3 DEF GraphPart

(* ... and what concerns the port under expansion.                           *)
PortPart == /\ GotFree
            /\ PendingOwned
            /\ NodesOfPast
            /\ Descending
            /\ RenderedSoFar

LEMMA ExpandInvParts ==
    ExpandInv <=> ExpandTypeOK /\ SortDone /\ GraphPart /\ PortPart
  BY DEF ExpandInv, GraphPart, PortPart

LEMMA CurTypes ==
    ASSUME ExpandTypeOK, at <= Len(out)
    PROVE  /\ cur \in Idx /\ port = ports[cur] /\ at \in DOMAIN out
           /\ port.repo \in Repos
           /\ port.src \in Repos \cup {NoRepo}
           /\ port.kind = "container" => port.src \in Repos
           /\ port.tmpls \in Seq(Template)
           /\ port.kind \in Kinds
  <1>1. ports \in Configs /\ out \in Seq(Idx) /\ at \in 1..(Len(out) + 1)
    BY DEF ExpandTypeOK, SortTypeOK
  <1>2. at \in DOMAIN out /\ out[at] \in Idx
    BY <1>1
  <1>3. QED
    BY <1>1, <1>2, PortTypes DEF cur, port

-----------------------------------------------------------------------------
LEMMA ExpandInvInit == ExpandInit => ExpandInv
  <1> SUFFICES ASSUME ExpandInit PROVE ExpandInv
    OBVIOUS
  <1> USE DEF ExpandInit, NodesInit
  <1>1. SortTypeOK
    BY SortInvInit DEF SortInv
  <1>2. Len(out) = 0
    BY DEF SortInit
  <1>3. NoTag \in Tag
    BY PortsAssumption DEF NoTag, Tag
  <1>4. ExpandTypeOK
    BY <1>1, <1>2, <1>3 DEF ExpandTypeOK
  <1>5. SortDone
    BY DEF SortDone
  <1>6. GraphPart
    BY DEF GraphPart, NodeShape, UniqueOwner, ParentFirst, ExpandedOwned,
           InternalBase, FloatingOnNewest
  <1>7. PortPart
    BY DEF PortPart, GotFree, PendingOwned, NodesOfPast, Descending, RenderedSoFar,
           Expanding
  <1>8. QED
    BY <1>4, <1>5, <1>6, <1>7, ExpandInvParts

(* The sort takes no step once it has its verdict.                           *)
LEMMA StillSorting ==
    ASSUME SortInv, SortNext
    PROVE  verdict = "sorting"
  <1>1. ASSUME Seed PROVE verdict = "sorting"
    <2>1. next <= N /\ N \in Nat
      BY <1>1, Positions DEF Seed, SortInv, SortTypeOK
    <2>2. QED
      BY <2>1 DEF SortInv, SortTypeOK, Phases
  <1>2. ASSUME NEW c \in Idx, Visit(c) PROVE verdict = "sorting"
    BY <1>2 DEF Visit, SortInv, SortTypeOK, Phases
  <1>3. QED
    BY <1>1, <1>2 DEF SortNext, Pop, Finish

(* While the ports are being sorted nothing is expanded.                     *)
LEMMA ExpandInvSort ==
    ASSUME ExpandInv, SortInv, SortNext, UNCHANGED nodesVars
    PROVE  ExpandInv'
  <1>1. /\ UNCHANGED << pc, at, todo, match, tmpl, got, expanded, nodes, owner >>
        /\ UNCHANGED ports
    BY DEF nodesVars, SortNext, Seed, Pop, Visit, Finish
  <1>2. verdict = "sorting"
    BY StillSorting
  <1>3. pc = "sort" /\ at = 1 /\ nodes = << >>
    BY <1>2 DEF ExpandInv, SortDone
  <1>4. SortTypeOK'
    BY SortInvStep DEF SortInv
  <1>5. ExpandTypeOK'
    <2>1. Len(out') \in Nat
      BY <1>4 DEF SortTypeOK
    <2>2. at' \in 1..(Len(out') + 1)
      BY <1>1, <1>3, <2>1
    <2>3. QED
      BY <1>1, <1>3, <1>4, <2>2 DEF ExpandInv, ExpandTypeOK, Node
  <1>6. SortDone'
    BY <1>1, <1>3 DEF SortDone
  <1>7. GraphPart'
    BY <1>1, GraphPartStable, ExpandInvParts
  <1>8. PortPart'
    BY <1>1, <1>3 DEF PortPart, GotFree, PendingOwned, NodesOfPast, Descending,
                      RenderedSoFar, Expanding
  <1>9. QED
    BY <1>5, <1>6, <1>7, <1>8 DEF ExpandInv, GraphPart, PortPart
-----------------------------------------------------------------------------
(* One lemma per group of actions: first those that only change the place in *)
(* the loops, then the one that adds a node.                                 *)
LEMMA ExpandInvLeave ==
    ASSUME ExpandInv, UNCHANGED sortVars,
           Sorted \/ OpenFails \/ RenderFails
    PROVE  ExpandInv'
  <1>1. /\ UNCHANGED << ports, out, at, todo, match, tmpl, got, expanded, nodes, owner >>
        /\ pc' \in {"open", "failed"}
        /\ pc' = "open" => pc = "sort"
        /\ verdict' = verdict
    BY DEF sortVars, Sorted, OpenFails, RenderFails
  <1>2. ExpandTypeOK'
    BY <1>1 DEF ExpandInv, ExpandTypeOK, SortTypeOK, Node, sortVars, Idx, N
  <1>3. SortDone'
    BY <1>1 DEF ExpandInv, SortDone, Sorted, OpenFails, RenderFails
  <1>4. GraphPart'
    BY <1>1, GraphPartStable, ExpandInvParts
  <1>5. NodesOfPast'
    BY <1>1 DEF ExpandInv, NodesOfPast, Expanding, SortDone
  <1>6. GotFree' /\ PendingOwned' /\ Descending' /\ RenderedSoFar'
    BY <1>1 DEF GotFree, PendingOwned, Descending, RenderedSoFar, Expanding
  <1>7. QED
    BY <1>2, <1>3, <1>4, <1>5, <1>6 DEF ExpandInv, GraphPart, PortPart

LEMMA ExpandInvOpen ==
    ASSUME ExpandInv, SortInv, UNCHANGED sortVars, Open
    PROVE  ExpandInv'
  <1>1. /\ UNCHANGED << ports, out, verdict, at, match, tmpl, got, expanded, nodes, owner >>
        /\ pc = "open" /\ pc' = "match" /\ at <= Len(out)
        /\ UNCHANGED << cur, port, Idx, N >>
    BY DEF sortVars, Open, cur, port, Idx, N
  <1>2. /\ cur \in Idx /\ port.repo \in Repos /\ port.src \in Repos \cup {NoRepo}
        /\ port.kind = "container" => port.src \in Repos
        /\ at \in DOMAIN out /\ cur = out[at] /\ port = ports[cur]
    BY <1>1, CurTypes DEF ExpandInv, cur, port
  <1>3. PICK ts \in IF Internal(ports, cur) THEN {expanded[port.src]}
                                            ELSE Listings[port.src] :
           todo' = Selected(port.sel, ts)
    BY DEF Open
  <1>4. ts \in Seq(Tag)
    <2>1. CASE Internal(ports, cur)
      BY <1>2, <1>3, <2>1 DEF Internal, port, ExpandInv, ExpandTypeOK
    <2>2. CASE ~Internal(ports, cur)
      BY <1>2, <1>3, <2>2, ListingsAssumption
    <2>3. QED
      BY <2>1, <2>2
  <1>5. todo' \subseteq Tag /\ \A t \in todo' : \E i \in DOMAIN ts : ts[i] = t
    BY <1>3, <1>4, SelectedListed
  <1>6. ExpandTypeOK'
    BY <1>1, <1>5 DEF ExpandInv, ExpandTypeOK, SortTypeOK, Node, sortVars
  <1>7. SortDone'
    BY <1>1 DEF ExpandInv, SortDone
  <1>8. GraphPart'
    BY <1>1, GraphPartStable, ExpandInvParts
  <1>9. GotFree' /\ RenderedSoFar'
    BY <1>1 DEF GotFree, RenderedSoFar
  <1>10. PendingOwned'
    <2> SUFFICES ASSUME Internal(ports, cur), NEW t \in todo'
                 PROVE  RefOf(port.src, t) \in DOMAIN owner
      BY <1>1 DEF PendingOwned, Pending
    <2>1. ts = expanded[port.src] /\ port.src \in Repos
      BY <1>2, <1>3 DEF Internal, port
    <2>2. QED
      BY <1>5, <2>1 DEF ExpandInv, ExpandedOwned
  <1>11. NodesOfPast'
    BY <1>1 DEF ExpandInv, NodesOfPast, Expanding
  <1>12. Descending'
    <2>1. ASSUME NEW i \in DOMAIN nodes, nodes[i].port = cur PROVE FALSE
      <3>1. PICK x \in DOMAIN out : out[x] = cur /\ x < at
        BY <1>1, <2>1 DEF ExpandInv, NodesOfPast, Expanding
      <3>2. x = at
        BY <1>2, <3>1 DEF SortInv, NoRepeat
      <3>3. at \in Nat
        BY DEF ExpandInv, ExpandTypeOK, SortTypeOK
      <3>4. QED
        BY <3>1, <3>2, <3>3
    <2>2. QED
      BY <1>1, <2>1 DEF Descending
  <1>13. QED
    BY <1>6, <1>7, <1>8, <1>9, <1>10, <1>11, <1>12 DEF ExpandInv, GraphPart, PortPart

LEMMA ExpandInvNextPort ==
    ASSUME ExpandInv, UNCHANGED sortVars, NextPort
    PROVE  ExpandInv'
  <1>1. /\ UNCHANGED << ports, out, verdict, todo, match, tmpl, got, expanded, nodes, owner >>
        /\ pc = "match" /\ pc' = "open" /\ at' = at + 1
        /\ UNCHANGED << Idx, N >>
    BY DEF sortVars, NextPort, Idx, N
  <1>2. at <= Len(out) /\ at \in Nat \ {0} /\ Len(out) \in Nat
    BY <1>1 DEF ExpandInv, ExpandTypeOK, SortTypeOK
  <1>3. ExpandTypeOK'
    BY <1>1, <1>2 DEF ExpandInv, ExpandTypeOK, SortTypeOK, Node, sortVars
  <1>4. SortDone'
    BY <1>1 DEF ExpandInv, SortDone
  <1>5. GraphPart'
    BY <1>1, GraphPartStable, ExpandInvParts
  <1>6. GotFree' /\ PendingOwned' /\ Descending' /\ RenderedSoFar'
    BY <1>1 DEF GotFree, PendingOwned, Descending, RenderedSoFar, Expanding
  <1>7. NodesOfPast'
    <2> SUFFICES ASSUME NEW i \in DOMAIN nodes
                 PROVE  \E x \in DOMAIN out : out[x] = nodes[i].port /\ x < at + 1
      BY <1>1, <1>2 DEF NodesOfPast, SortTypeOK
    <2>1. PICK x \in DOMAIN out : out[x] = nodes[i].port /\ x <= at
      BY DEF ExpandInv, NodesOfPast
    <2>2. x \in Nat
      BY DEF ExpandInv, ExpandTypeOK, SortTypeOK
    <2>3. QED
      BY <1>2, <2>1, <2>2
  <1>8. QED
    BY <1>3, <1>4, <1>5, <1>6, <1>7 DEF ExpandInv, GraphPart, PortPart

LEMMA ExpandInvNextMatch ==
    ASSUME ExpandInv, UNCHANGED sortVars, NextMatch
    PROVE  ExpandInv'
  <1>1. /\ UNCHANGED << ports, out, verdict, at, expanded, nodes, owner >>
        /\ pc = "match" /\ pc' = "render" /\ tmpl' = 1 /\ got' = << >>
        /\ UNCHANGED << cur, port, Idx, N >>
    BY DEF sortVars, NextMatch, cur, port, Idx, N
  <1>2. PICK m \in todo : IsNewest(todo, m) /\ match' = m /\ todo' = todo \ {m}
    BY DEF NextMatch, IsNewest
  <1>3. at <= Len(out) /\ todo \subseteq Tag /\ m \in Tag
    BY <1>1 DEF ExpandInv, ExpandTypeOK
  <1>4. port.tmpls \in Seq(Template) /\ Len(port.tmpls) \in Nat
    BY <1>3, CurTypes DEF ExpandInv
  <1>5. ExpandTypeOK'
    BY <1>1, <1>2, <1>3 DEF ExpandInv, ExpandTypeOK, SortTypeOK, Node, sortVars
  <1>6. SortDone'
    BY <1>1 DEF ExpandInv, SortDone
  <1>7. GraphPart'
    BY <1>1, GraphPartStable, ExpandInvParts
  <1>8. GotFree'
    BY <1>1 DEF GotFree
  <1>9. Pending = todo /\ Pending' = todo /\ Expanding /\ Expanding'
    BY <1>1, <1>2 DEF Pending, Expanding
  <1>10. PendingOwned'
    BY <1>1, <1>9 DEF ExpandInv, PendingOwned
  <1>11. NodesOfPast'
    BY <1>1, <1>9 DEF ExpandInv, NodesOfPast
  <1>12. Descending'
    BY <1>1, <1>2, <1>9 DEF ExpandInv, Descending, IsNewest
  <1>13. RenderedSoFar'
    BY <1>1, <1>4 DEF RenderedSoFar
  <1>14. QED
    BY <1>5, <1>6, <1>7, <1>8, <1>10, <1>11, <1>12, <1>13 DEF ExpandInv, GraphPart, PortPart

LEMMA ExpandInvSkip ==
    ASSUME ExpandInv, UNCHANGED sortVars, SkipMatch
    PROVE  ExpandInv'
  <1>1. /\ UNCHANGED << ports, out, verdict, at, todo, match, tmpl, got, expanded, nodes, owner >>
        /\ pc = "render" /\ pc' = "match"
        /\ UNCHANGED << cur, port, Idx, N >>
    BY DEF sortVars, SkipMatch, cur, port, Idx, N
  <1>2. ExpandTypeOK'
    BY <1>1 DEF ExpandInv, ExpandTypeOK, SortTypeOK, Node, sortVars
  <1>3. SortDone'
    BY <1>1 DEF ExpandInv, SortDone
  <1>4. GraphPart'
    BY <1>1, GraphPartStable, ExpandInvParts
  <1>5. Pending' \subseteq Pending /\ Expanding /\ Expanding'
    BY <1>1 DEF Pending, Expanding
  <1>6. GotFree' /\ RenderedSoFar'
    BY <1>1 DEF GotFree, RenderedSoFar
  <1>7. PendingOwned' /\ NodesOfPast' /\ Descending'
    BY <1>1, <1>5 DEF ExpandInv, PendingOwned, NodesOfPast, Descending
  <1>8. QED
    BY <1>2, <1>3, <1>4, <1>6, <1>7 DEF ExpandInv, GraphPart, PortPart

LEMMA ExpandInvRender ==
    ASSUME ExpandInv, UNCHANGED sortVars, RenderTag
    PROVE  ExpandInv'
  <1> DEFINE t == Render(port.tmpls[tmpl], match)
  <1>1. /\ UNCHANGED << ports, out, verdict, pc, at, todo, match, expanded, nodes, owner >>
        /\ pc = "render" /\ tmpl' = tmpl + 1 /\ tmpl <= Len(port.tmpls)
        /\ got' = IF RefOf(port.repo, t) \in DOMAIN owner THEN got ELSE Append(got, t)
        /\ UNCHANGED << cur, port, Idx, N >>
    BY DEF sortVars, RenderTag, Free, cur, port, Idx, N
  <1>2. at <= Len(out) /\ match \in Tag /\ got \in Seq(Tag) /\ tmpl \in Nat \ {0}
    BY <1>1 DEF ExpandInv, ExpandTypeOK
  <1>3. port.tmpls \in Seq(Template) /\ port.tmpls[tmpl] \in Template
    BY <1>1, <1>2, CurTypes DEF ExpandInv
  <1>4. t \in Tag
    BY <1>2, <1>3, TagTypes
  <1>5. /\ got' \in Seq(Tag)
        /\ \A i \in DOMAIN got' :
              \/ i \in DOMAIN got /\ got'[i] = got[i]
              \/ got'[i] = t /\ RefOf(port.repo, t) \notin DOMAIN owner
        /\ \A i \in DOMAIN got : i \in DOMAIN got' /\ got'[i] = got[i]
        /\ RefOf(port.repo, t) \in DOMAIN owner \/ \E x \in DOMAIN got' : got'[x] = t
    <2>1. CASE RefOf(port.repo, t) \in DOMAIN owner
      <3>1. got' = got
        BY <1>1, <2>1
      <3>2. QED
        BY <1>2, <2>1, <3>1
    <2>2. CASE RefOf(port.repo, t) \notin DOMAIN owner
      <3>1. got' = Append(got, t)
        BY <1>1, <2>2
      <3>2. /\ got' \in Seq(Tag)
            /\ DOMAIN got = 1..Len(got) /\ Len(got) \in Nat
            /\ DOMAIN got' = 1..(Len(got) + 1)
            /\ got'[Len(got) + 1] = t
            /\ \A i \in 1..Len(got) : got'[i] = got[i]
        BY <1>2, <1>4, <3>1
      <3>3. \A i \in DOMAIN got' :
              \/ i \in DOMAIN got /\ got'[i] = got[i]
              \/ got'[i] = t /\ RefOf(port.repo, t) \notin DOMAIN owner
        BY <2>2, <3>2
      <3>4. \E x \in DOMAIN got' : got'[x] = t
        BY <3>2
      <3>5. \A i \in DOMAIN got : i \in DOMAIN got' /\ got'[i] = got[i]
        BY <3>2
      <3>6. QED
        BY <3>2, <3>3, <3>4, <3>5
    <2>3. QED
      BY <2>1, <2>2
  <1>6. ExpandTypeOK'
    <2>1. SortTypeOK'
      BY DEF ExpandInv, ExpandTypeOK, SortTypeOK, sortVars, Idx, N
    <2>2. tmpl' \in Nat \ {0}
      BY <1>1, <1>2
    <2>3. QED
      BY <1>1, <1>5, <2>1, <2>2 DEF ExpandInv, ExpandTypeOK, Node
  <1>7. SortDone'
    BY <1>1 DEF ExpandInv, SortDone
  <1>8. GraphPart'
    BY <1>1, GraphPartStable, ExpandInvParts
  <1>9. Pending' = Pending /\ Expanding /\ Expanding'
    BY <1>1 DEF Pending, Expanding
  <1>10. PendingOwned' /\ NodesOfPast' /\ Descending'
    BY <1>1, <1>9 DEF ExpandInv, PendingOwned, NodesOfPast, Descending
  <1>11. GotFree'
    BY <1>1, <1>5 DEF ExpandInv, GotFree
  <1>12. RenderedSoFar'
    <2>1. tmpl + 1 <= Len(port.tmpls) + 1
      BY <1>1, <1>2, <1>3
    <2>2. ASSUME NEW k \in 1..tmpl
          PROVE  \/ RefOf(port.repo, Render(port.tmpls[k], match)) \in DOMAIN owner
                 \/ \E x \in DOMAIN got' : got'[x] = Render(port.tmpls[k], match)
      <3>1. CASE k = tmpl
        BY <1>5, <3>1
      <3>2. CASE k # tmpl
        <4>1. k \in 1..(tmpl - 1)
          BY <1>2, <3>2
        <4>2. QED
          BY <1>1, <1>5, <4>1 DEF ExpandInv, RenderedSoFar
      <3>3. QED
        BY <3>1, <3>2
    <2>3. 1..(tmpl' - 1) = 1..tmpl
      BY <1>1, <1>2
    <2>4. QED
      BY <1>1, <2>1, <2>2, <2>3 DEF RenderedSoFar
  <1>13. QED
    BY <1>6, <1>7, <1>8, <1>10, <1>11, <1>12 DEF ExpandInv, GraphPart, PortPart
-----------------------------------------------------------------------------
(* AddNode: its references were free, so what is known of the other nodes    *)
(* stays.                                                                    *)
LEMMA AddNodeFacts ==
    ASSUME ExpandInv, UNCHANGED sortVars, AddNode
    PROVE  /\ UNCHANGED << ports, out, verdict, at, todo, match, tmpl, got, cur, port, Idx, N >>
           /\ pc = "render" /\ pc' = "match"
           /\ at <= Len(out) /\ cur \in Idx /\ port = ports[cur] /\ port.repo \in Repos
           /\ at \in DOMAIN out /\ match \in Tag /\ got \in Seq(Tag)
           /\ NewNode \in Node
           /\ nodes \in Seq(Node) /\ nodes' \in Seq(Node)
           /\ DOMAIN nodes = 1..Len(nodes) /\ Len(nodes) \in Nat
           /\ DOMAIN nodes' = 1..(Len(nodes) + 1)
           /\ nodes'[Len(nodes) + 1] = NewNode
           /\ \A i \in DOMAIN nodes : nodes'[i] = nodes[i]
           /\ RefsOf(NewNode) = {RefOf(port.repo, got[k]) : k \in DOMAIN got}
           /\ DOMAIN owner' = DOMAIN owner \cup RefsOf(NewNode)
           /\ \A r \in DOMAIN owner : r \notin RefsOf(NewNode) /\ owner'[r] = owner[r]
           /\ \A r \in RefsOf(NewNode) : owner'[r] = Len(nodes) + 1
  <1>1. /\ UNCHANGED << ports, out, verdict, at, todo, match, tmpl, got, cur, port, Idx, N >>
        /\ pc = "render" /\ pc' = "match"
    BY DEF sortVars, AddNode, cur, port, Idx, N
  <1>2. at <= Len(out) /\ match \in Tag /\ got \in Seq(Tag) /\ nodes \in Seq(Node)
    BY <1>1 DEF ExpandInv, ExpandTypeOK
  <1>3. /\ cur \in Idx /\ port = ports[cur] /\ port.repo \in Repos /\ at \in DOMAIN out
        /\ port.src \in Repos \cup {NoRepo}
    BY <1>2, CurTypes DEF ExpandInv
  <1>4. NewNode \in Node
    <2>1. BaseRef(port, match) \in Ref
      BY <1>2, <1>3 DEF BaseRef, RefOf, Ref
    <2>2. ParentOf(BaseRef(port, match)) \in Nat
      BY <1>2 DEF ParentOf, ExpandInv, ExpandTypeOK
    <2>3. QED
      BY <1>2, <1>3, <2>1, <2>2 DEF NewNode, Node
  <1>5. /\ nodes' \in Seq(Node)
        /\ DOMAIN nodes = 1..Len(nodes) /\ Len(nodes) \in Nat
        /\ DOMAIN nodes' = 1..(Len(nodes) + 1)
        /\ nodes'[Len(nodes) + 1] = NewNode
        /\ \A i \in DOMAIN nodes : nodes'[i] = nodes[i]
    <2> HIDE DEF NewNode
    <2>1. nodes' = Append(nodes, NewNode)
      BY DEF AddNode
    <2>2. QED
      BY <1>2, <1>4, <2>1
  <1>6. RefsOf(NewNode) = {RefOf(port.repo, got[k]) : k \in DOMAIN got}
    BY <1>3 DEF RefsOf, NewNode
  <1>7. \A r \in DOMAIN owner : r \notin RefsOf(NewNode)
    BY <1>1, <1>6 DEF ExpandInv, GotFree
  <1>8. /\ DOMAIN owner' = DOMAIN owner \cup RefsOf(NewNode)
        /\ \A r \in DOMAIN owner : owner'[r] = owner[r]
        /\ \A r \in RefsOf(NewNode) : owner'[r] = Len(nodes) + 1
    BY <1>7 DEF AddNode
  <1>9. QED
    BY <1>1, <1>2, <1>3, <1>4, <1>5, <1>6, <1>7, <1>8

LEMMA ExpandInvAddNode ==
    ASSUME ExpandInv, UNCHANGED sortVars, AddNode
    PROVE  ExpandInv'
  <1> DEFINE b == BaseRef(port, match)
  <1> DEFINE new == Len(nodes) + 1
  <1>1. /\ UNCHANGED << ports, out, verdict, at, todo, match, tmpl, got, cur, port, Idx, N >>
        /\ pc = "render" /\ pc' = "match"
        /\ at <= Len(out) /\ cur \in Idx /\ port = ports[cur] /\ port.repo \in Repos
        /\ at \in DOMAIN out /\ match \in Tag /\ got \in Seq(Tag)
    BY AddNodeFacts
  <1>2. /\ NewNode \in Node /\ nodes' \in Seq(Node) /\ nodes \in Seq(Node)
        /\ DOMAIN nodes = 1..Len(nodes) /\ Len(nodes) \in Nat
        /\ DOMAIN nodes' = 1..new /\ nodes'[new] = NewNode
        /\ \A i \in DOMAIN nodes : nodes'[i] = nodes[i]
    BY AddNodeFacts
  <1>3. /\ RefsOf(NewNode) = {RefOf(port.repo, got[k]) : k \in DOMAIN got}
        /\ DOMAIN owner' = DOMAIN owner \cup RefsOf(NewNode)
        /\ \A r \in DOMAIN owner : r \notin RefsOf(NewNode) /\ owner'[r] = owner[r]
        /\ \A r \in RefsOf(NewNode) : owner'[r] = new
    BY AddNodeFacts
  <1>4. /\ NewNode.port = cur /\ NewNode.from = match /\ NewNode.tags = got
        /\ NewNode.base = b /\ NewNode.parent = ParentOf(b)
    BY DEF NewNode
  <1>5. /\ DOMAIN owner \subseteq Ref
        /\ \A r \in DOMAIN owner : owner[r] \in DOMAIN nodes
    BY DEF ExpandInv, ExpandTypeOK
  <1>6. \A i \in DOMAIN nodes' : i \in DOMAIN nodes \/ i = new
    BY <1>2
  <1>7. RefsOf(NewNode) \subseteq Ref
    BY <1>1, <1>3 DEF Ref, RefOf
  <1>8. ExpandTypeOK'
    <2>1. SortTypeOK'
      BY DEF ExpandInv, ExpandTypeOK, SortTypeOK, sortVars, Idx, N
    <2>2. expanded' \in [Repos -> Seq(Tag)]
      <3>1. expanded \in [Repos -> Seq(Tag)] /\ expanded' = [expanded EXCEPT ![port.repo] = @ \o got]
        BY DEF AddNode, ExpandInv, ExpandTypeOK
      <3>2. expanded[port.repo] \o got \in Seq(Tag)
        BY <1>1, <3>1
      <3>3. QED
        BY <3>1, <3>2
    <2>3. DOMAIN owner' \subseteq Ref /\ \A r \in DOMAIN owner' : owner'[r] \in DOMAIN nodes'
      BY <1>2, <1>3, <1>5, <1>7
    <2>4. owner' = [r \in DOMAIN owner' |-> owner'[r]]
      BY DEF AddNode
    <2>5. owner' \in [DOMAIN owner' -> DOMAIN nodes']
      BY <2>3, <2>4
    <2>6. (nodes \in Seq(Node))'
      BY <1>1, <1>2 DEF Node
    <2>7. QED
      BY <1>1, <2>1, <2>2, <2>3, <2>5, <2>6 DEF ExpandInv, ExpandTypeOK
  <1>9. SortDone'
    BY <1>1 DEF ExpandInv, SortDone
  <1>10. NodeShape'
    <2> SUFFICES ASSUME NEW i \in DOMAIN nodes'
                 PROVE  /\ nodes'[i].tags # << >>
                        /\ nodes'[i].base = BaseRef(ports[nodes'[i].port], nodes'[i].from)
      BY <1>1 DEF NodeShape, BaseRef
    <2>1. CASE i \in DOMAIN nodes
      BY <1>2, <2>1 DEF ExpandInv, NodeShape
    <2>2. CASE i = new
      BY <1>1, <1>2, <1>4, <2>2 DEF AddNode
    <2>3. QED
      BY <1>6, <2>1, <2>2
  <1>11. /\ \A i \in DOMAIN nodes : RefsOf(nodes[i])' = RefsOf(nodes[i])
         /\ \A i \in DOMAIN nodes' :
               i = new => {RefOf(ports'[nodes'[i].port].repo, nodes'[i].tags[k]) :
                              k \in DOMAIN nodes'[i].tags} = RefsOf(NewNode)
    BY <1>1, <1>2, <1>3, <1>4 DEF RefsOf
  <1>12. UniqueOwner'
    <2>1. ASSUME NEW i \in DOMAIN nodes', NEW r \in RefsOf(nodes[i])'
          PROVE  r \in DOMAIN owner' /\ owner'[r] = i
      <3>1. CASE i \in DOMAIN nodes
        <4>1. r \in RefsOf(nodes[i])
          BY <1>11, <2>1, <3>1
        <4>2. QED
          BY <1>3, <3>1, <4>1 DEF ExpandInv, UniqueOwner
      <3>2. CASE i = new
        <4>1. r \in RefsOf(NewNode)
          BY <1>11, <2>1, <3>2 DEF RefsOf
        <4>2. QED
          BY <1>3, <3>2, <4>1
      <3>3. QED
        BY <1>6, <3>1, <3>2
    <2>2. ASSUME NEW r \in DOMAIN owner'
          PROVE  r \in RefsOf(nodes[owner[r]])'
      <3>1. CASE r \in DOMAIN owner
        <4>1. owner'[r] = owner[r] /\ owner[r] \in DOMAIN nodes /\ r \in RefsOf(nodes[owner[r]])
          BY <1>3, <1>5, <3>1 DEF ExpandInv, UniqueOwner
        <4>2. nodes'[owner'[r]] = nodes[owner[r]]
          BY <1>2, <4>1
        <4>3. QED
          BY <1>1, <4>1, <4>2 DEF RefsOf
      <3>2. CASE r \in RefsOf(NewNode)
        <4>1. nodes'[owner'[r]] = NewNode
          BY <1>2, <1>3, <3>2
        <4>2. QED
          BY <1>1, <3>2, <4>1 DEF RefsOf
      <3>3. QED
        BY <1>3, <3>1, <3>2
    <2>3. QED
      BY <2>1, <2>2 DEF UniqueOwner
  <1>13. ParentFirst'
    <2> SUFFICES ASSUME NEW i \in DOMAIN nodes', nodes'[i].parent # 0
                 PROVE  /\ nodes'[i].parent < i
                        /\ nodes'[i].base \in RefsOf(nodes[nodes[i].parent])'
      BY DEF ParentFirst
    <2>1. CASE i \in DOMAIN nodes
      <3>1. /\ nodes[i].parent < i /\ nodes[i].parent # 0 /\ nodes[i].parent \in Nat
            /\ nodes[i].base \in RefsOf(nodes[nodes[i].parent])
        <4>1. nodes[i] \in Node /\ nodes[i].parent # 0
          BY <1>2, <2>1
        <4>2. nodes[i].parent \in Nat
          BY <4>1 DEF Node
        <4>3. QED
          BY <2>1, <4>1, <4>2 DEF ExpandInv, ParentFirst
      <3>2. nodes[i].parent \in DOMAIN nodes
        BY <1>2, <2>1, <3>1
      <3>3. QED
        BY <1>2, <1>11, <2>1, <3>1, <3>2
    <2>2. CASE i = new
      <3>1. b \in DOMAIN owner /\ nodes'[i].parent = owner[b] /\ nodes'[i].base = b
        BY <1>2, <1>4, <2>2 DEF ParentOf
      <3>2. owner[b] \in DOMAIN nodes /\ b \in RefsOf(nodes[owner[b]])
        BY <1>5, <3>1 DEF ExpandInv, UniqueOwner
      <3>3. nodes'[nodes'[i].parent] = nodes[owner[b]]
        BY <1>2, <3>1, <3>2
      <3>4. QED
        BY <1>1, <1>2, <2>2, <3>1, <3>2, <3>3 DEF RefsOf
    <2>3. QED
      BY <1>6, <2>1, <2>2
  <1>14. GotFree' /\ RenderedSoFar'
    BY <1>1 DEF GotFree, RenderedSoFar
  <1>15. ExpandedOwned'
    <2>1. expanded \in [Repos -> Seq(Tag)] /\ expanded' = [expanded EXCEPT ![port.repo] = @ \o got]
      BY DEF AddNode, ExpandInv, ExpandTypeOK
    <2> SUFFICES ASSUME NEW r \in Repos, NEW k \in DOMAIN expanded'[r]
                 PROVE  RefOf(r, expanded'[r][k]) \in DOMAIN owner'
      BY DEF ExpandedOwned, RefOf
    <2>2. ASSUME NEW x \in DOMAIN expanded[r]
          PROVE  RefOf(r, expanded[r][x]) \in DOMAIN owner'
      BY <1>3, <2>2 DEF ExpandInv, ExpandedOwned
    <2>3. CASE r # port.repo
      BY <2>1, <2>2, <2>3
    <2>4. CASE r = port.repo
      <3>1. expanded[r] \in Seq(Tag) /\ expanded'[r] = expanded[r] \o got
        BY <2>1, <2>4
      <3>2. CASE k \in DOMAIN expanded[r]
        <4>1. expanded'[r][k] = expanded[r][k]
          BY <1>1, <3>1, <3>2
        <4>2. QED
          BY <2>2, <3>2, <4>1
      <3>3. CASE k \notin DOMAIN expanded[r]
        <4>1. k - Len(expanded[r]) \in DOMAIN got /\ expanded'[r][k] = got[k - Len(expanded[r])]
          BY <1>1, <3>1, <3>3
        <4>2. QED
          BY <1>3, <2>4, <4>1
      <3>4. QED
        BY <3>2, <3>3
    <2>5. QED
      BY <2>3, <2>4
  <1>16. Pending = todo \cup {match} /\ Pending' = todo /\ Expanding /\ Expanding'
    BY <1>1 DEF Pending, Expanding
  <1>17. PendingOwned'
    BY <1>1, <1>3, <1>16 DEF ExpandInv, PendingOwned, RefOf
  <1>18. InternalBase'
    <2> SUFFICES ASSUME NEW i \in DOMAIN nodes', Internal(ports, nodes'[i].port)
                 PROVE  /\ nodes'[i].base \in DOMAIN owner'
                        /\ nodes'[i].parent = owner'[nodes'[i].base]
      BY <1>1 DEF InternalBase
    <2>1. CASE i \in DOMAIN nodes
      BY <1>2, <1>3, <2>1 DEF ExpandInv, InternalBase
    <2>2. CASE i = new
      <3>1. Internal(ports, cur) /\ b = RefOf(port.src, match)
        BY <1>1, <1>2, <1>4, <2>2 DEF Internal, BaseRef
      <3>2. b \in DOMAIN owner
        BY <1>16, <3>1 DEF ExpandInv, PendingOwned
      <3>3. QED
        BY <1>2, <1>3, <1>4, <2>2, <3>2 DEF ParentOf
    <2>3. QED
      BY <1>6, <2>1, <2>2
  <1>19. NodesOfPast'
    <2> SUFFICES ASSUME NEW i \in DOMAIN nodes'
                 PROVE  \E x \in DOMAIN out : out[x] = nodes'[i].port /\ x <= at
      BY <1>1, <1>16 DEF NodesOfPast
    <2>1. CASE i \in DOMAIN nodes
      BY <1>2, <2>1 DEF ExpandInv, NodesOfPast
    <2>2. CASE i = new
      <3>1. out[at] = nodes'[i].port /\ at <= at
        BY <1>2, <1>4, <2>2 DEF cur, ExpandInv, ExpandTypeOK
      <3>2. QED
        BY <1>1, <3>1
    <2>3. QED
      BY <1>6, <2>1, <2>2
  <1>20. Descending'
    <2>1. ASSUME NEW i \in DOMAIN nodes', nodes'[i].port = cur, NEW t \in todo
          PROVE  GreaterThan(nodes'[i].from, t)
      <3>1. CASE i \in DOMAIN nodes
        BY <1>2, <1>16, <2>1, <3>1 DEF ExpandInv, Descending
      <3>2. CASE i = new
        BY <1>1, <1>2, <1>4, <1>16, <2>1, <3>2 DEF ExpandInv, Descending
      <3>3. QED
        BY <1>6, <3>1, <3>2
    <2>2. QED
      BY <1>1, <1>16, <2>1 DEF Descending
  <1>21. FloatingOnNewest'
    <2> SUFFICES ASSUME NEW i \in DOMAIN nodes',
                        NEW k \in DOMAIN ports[nodes'[i].port].tmpls,
                        NEW p, p = ports[nodes'[i].port],
                        NEW r, r = RefOf(p.repo, Render(p.tmpls[k], nodes'[i].from))
                 PROVE  /\ r \in DOMAIN owner'
                        /\ nodes'[owner'[r]].port = nodes'[i].port =>
                              \/ owner'[r] = i
                              \/ GreaterThan(nodes'[owner'[r]].from, nodes'[i].from)
      BY <1>1 DEF FloatingOnNewest
    <2>1. CASE i \in DOMAIN nodes
      <3>1. /\ r \in DOMAIN owner
            /\ nodes[owner[r]].port = nodes[i].port =>
                  owner[r] = i \/ GreaterThan(nodes[owner[r]].from, nodes[i].from)
        BY <1>2, <2>1 DEF ExpandInv, FloatingOnNewest
      <3>2. QED
        BY <1>2, <1>3, <1>5, <2>1, <3>1
    <2>2. CASE i = new
      <3>1. /\ nodes'[i].port = cur /\ nodes'[i].from = match /\ p = port
            /\ r = RefOf(port.repo, Render(port.tmpls[k], match)) /\ k \in DOMAIN port.tmpls
        BY <1>1, <1>2, <1>4, <2>2
      <3>2. k \in 1..(tmpl - 1)
        <4>1. tmpl > Len(port.tmpls) /\ tmpl \in Nat /\ port.tmpls \in Seq(Template)
          BY <1>1, CurTypes DEF AddNode, ExpandInv, ExpandTypeOK
        <4>2. QED
          BY <3>1, <4>1
      <3>3. r \in DOMAIN owner \/ \E x \in DOMAIN got : got[x] = Render(port.tmpls[k], match)
        BY <1>1, <3>1, <3>2 DEF ExpandInv, RenderedSoFar
      <3>4. CASE r \in DOMAIN owner
        <4>1. owner'[r] = owner[r] /\ owner[r] \in DOMAIN nodes /\ nodes'[owner[r]] = nodes[owner[r]]
          BY <1>2, <1>3, <1>5, <3>4
        <4>2. nodes[owner[r]].port = cur => GreaterThan(nodes[owner[r]].from, match)
          BY <1>16, <4>1 DEF ExpandInv, Descending
        <4>3. QED
          BY <1>3, <3>1, <3>4, <4>1, <4>2
      <3>5. CASE \E x \in DOMAIN got : got[x] = Render(port.tmpls[k], match)
        <4>1. r \in RefsOf(NewNode)
          BY <1>3, <3>1, <3>5
        <4>2. QED
          BY <1>3, <2>2, <4>1
      <3>6. QED
        BY <3>3, <3>4, <3>5
    <2>3. QED
      BY <1>6, <2>1, <2>2
  <1>22. QED
    BY <1>8, <1>9, <1>10, <1>12, <1>13, <1>14, <1>15, <1>17, <1>18, <1>19, <1>20, <1>21
       DEF ExpandInv
-----------------------------------------------------------------------------
LEMMA ExpandInvStep ==
    ASSUME ExpandInv, SortInv, [ExpandNext]_expandVars
    PROVE  ExpandInv'
  <1>1. CASE SortNext /\ UNCHANGED nodesVars
    BY <1>1, ExpandInvSort
  <1>2. CASE NodesNext /\ UNCHANGED sortVars
    <2>1. CASE Sorted \/ OpenFails \/ RenderFails
      BY <1>2, <2>1, ExpandInvLeave
    <2>2. CASE Open
      BY <1>2, <2>2, ExpandInvOpen
    <2>3. CASE NextMatch
      BY <1>2, <2>3, ExpandInvNextMatch
    <2>4. CASE NextPort
      BY <1>2, <2>4, ExpandInvNextPort
    <2>5. CASE RenderTag
      BY <1>2, <2>5, ExpandInvRender
    <2>6. CASE SkipMatch
      BY <1>2, <2>6, ExpandInvSkip
    <2>7. CASE AddNode
      BY <1>2, <2>7, ExpandInvAddNode
    <2>8. QED
      BY <1>2, <2>1, <2>2, <2>3, <2>4, <2>5, <2>6, <2>7 DEF NodesNext
  <1>3. CASE UNCHANGED expandVars
    <2>1. /\ UNCHANGED << ports, out, verdict, pc, at, todo, match, tmpl, got, expanded, nodes, owner >>
          /\ UNCHANGED << cur, port, Idx, N >> /\ UNCHANGED sortVars
      BY <1>3 DEF expandVars, sortVars, nodesVars, cur, port, Idx, N
    <2>2. ExpandTypeOK'
      BY <2>1 DEF ExpandInv, ExpandTypeOK, SortTypeOK, Node, sortVars
    <2>3. SortDone' /\ GraphPart'
      BY <2>1, GraphPartStable, ExpandInvParts DEF SortDone
    <2>4. Pending' = Pending /\ Expanding' = Expanding
      BY <2>1 DEF Pending, Expanding
    <2>5. GotFree' /\ PendingOwned' /\ NodesOfPast' /\ Descending'
      BY <2>1, <2>4 DEF ExpandInv, GotFree, PendingOwned, NodesOfPast, Descending
    <2>6. RenderedSoFar'
      BY <2>1 DEF ExpandInv, RenderedSoFar
    <2>7. QED
      BY <2>2, <2>3, <2>5, <2>6 DEF ExpandInv, GraphPart, PortPart
  <1>4. QED
    BY <1>1, <1>2, <1>3 DEF ExpandNext

(* The expansion leaves the sort alone: what was proved of topoSort holds of *)
(* every behaviour of Build.                                                 *)
THEOREM ExpandSorts == ExpandSpec => SortSpec
  <1>1. ExpandInit => SortInit
    BY DEF ExpandInit
  <1>2. [ExpandNext]_expandVars => [SortNext]_sortVars
    BY DEF ExpandNext, expandVars
  <1>3. QED
    BY <1>1, <1>2, PTL DEF ExpandSpec, SortSpec

(* The inductive invariant of Build, for all ports and listings.             *)
THEOREM ExpandInvariant == ExpandSpec => []ExpandInv
  <1>1. ExpandSpec => []SortInv
    BY ExpandSorts, SortInvariant, PTL
  <1>2. ExpandInv /\ SortInv /\ [ExpandNext]_expandVars => ExpandInv'
    BY ExpandInvStep
  <1>3. QED
    BY <1>1, <1>2, ExpandInvInit, PTL DEF ExpandSpec

(* No two nodes carry the same reference, and node_by_id finds its carrier.  *)
THEOREM ExpandUniqueOwner == ExpandSpec => []UniqueOwner
  <1>1. ExpandInv => UniqueOwner
    BY DEF ExpandInv
  <1>2. QED
    BY <1>1, ExpandInvariant, PTL

(* A node follows its parent, and the parent carries the node's base.        *)
THEOREM ExpandParentFirst == ExpandSpec => []ParentFirst
  <1>1. ExpandInv => ParentFirst
    BY DEF ExpandInv
  <1>2. QED
    BY <1>1, ExpandInvariant, PTL

(* A tag that several versions of a port render is on the newest of them.    *)
THEOREM ExpandFloatingOnNewest == ExpandSpec => []FloatingOnNewest
  <1>1. ExpandInv => FloatingOnNewest
    BY DEF ExpandInv
  <1>2. QED
    BY <1>1, ExpandInvariant, PTL

(* A base that some node carries is never taken for an external image,       *)
(* whatever node came later.                                                 *)
LEMMA ProducedIsParent ==
    ASSUME ExpandInv
    PROVE  ProducedBaseIsParent
  <1> SUFFICES ASSUME NEW i \in DOMAIN nodes, NEW p, p = ports[nodes[i].port],
                      p.src # p.repo, nodes[i].base \in DOMAIN owner
               PROVE  nodes[i].parent = owner[nodes[i].base]
    BY DEF ProducedBaseIsParent
  <1>1. /\ ports \in Configs /\ nodes \in Seq(Node)
        /\ owner[nodes[i].base] \in DOMAIN nodes
    BY DEF ExpandInv, ExpandTypeOK, SortTypeOK
  <1> DEFINE c == nodes[i].port
  <1> DEFINE k == nodes[owner[nodes[i].base]].port
  <1>2. c \in Idx /\ k \in Idx
    <2>1. nodes[i] \in Node /\ nodes[owner[nodes[i].base]] \in Node
      BY <1>1
    <2>2. QED
      BY <2>1 DEF Node
  <1>3. nodes[i].base.repo = ports[k].repo
    <2>1. nodes[i].base \in RefsOf(nodes[owner[nodes[i].base]])
      BY DEF ExpandInv, UniqueOwner
    <2>2. QED
      BY <2>1 DEF RefsOf, RefOf
  <1>4. ports[k].repo \in Repos /\ NoRepo \notin Repos
    BY <1>1, <1>2, PortTypes, PortsAssumption
  <1>5. nodes[i].base = BaseRef(p, nodes[i].from)
    BY DEF ExpandInv, NodeShape
  <1>6. p.kind = "container" /\ p.src = ports[k].repo
    BY <1>3, <1>4, <1>5 DEF BaseRef, RefOf
  <1>7. PICK u \in Idx : Produces(ports, u, p.src)
    BY <1>1, <1>2, <1>6, LastProducer
  <1>8. u # c
    BY <1>7 DEF Produces
  <1>9. Internal(ports, c)
    BY <1>2, <1>6, <1>7, <1>8 DEF Internal, Fed, Feeds, Idx
  <1>10. QED
    BY <1>9 DEF ExpandInv, InternalBase

(* Nodes with an in-repository base are children of the node that carries    *)
(* it, in every graph Build makes.                                           *)
THEOREM ExpandProducedBaseIsParent == ExpandSpec => []ProducedBaseIsParent
  <1>1. ExpandInv => ProducedBaseIsParent
    BY ProducedIsParent
  <1>2. QED
    BY <1>1, ExpandInvariant, PTL
-----------------------------------------------------------------------------
(* The repository that feeds an expanded port gets no more tags, as long as   *)
(* no two ports build the same one.                                          *)
LEMMA UpstreamIsPast ==
    ASSUME ExpandInv, SortInv, DistinctRepos, at <= Len(out),
           NEW x \in DOMAIN out, x <= at, Internal(ports, out[x])
    PROVE  ports[out[x]].src # port.repo
  <1> SUFFICES ASSUME ports[out[x]].src = port.repo PROVE FALSE
    OBVIOUS
  <1>1. cur \in Idx /\ port = ports[cur] /\ at \in DOMAIN out /\ cur = out[at]
    BY CurTypes DEF ExpandInv, cur
  <1>2. PICK u \in Idx : Feeds(ports, u, out[x])
    BY DEF Internal, Fed, Idx
  <1>3. ports[u].repo = port.repo
    BY <1>2 DEF Feeds, Produces
  <1>4. u = cur
    BY <1>1, <1>3 DEF DistinctRepos
  <1>5. PICK j \in 1..(x - 1) : out[j] = u
    BY <1>2 DEF SortInv, OrderSound
  <1>6. out \in Seq(Idx) /\ x \in 1..Len(out) /\ at \in 1..Len(out) /\ Len(out) \in Nat
    BY <1>1 DEF SortInv, SortTypeOK
  <1>7. j \in DOMAIN out /\ j # at
    BY <1>5, <1>6
  <1>8. QED
    BY <1>1, <1>4, <1>5, <1>7 DEF SortInv, OrderSound

LEMMA CarriedStable ==
    ASSUME DOMAIN owner \subseteq DOMAIN owner'
    PROVE  /\ \A p, t : Carried(p, t) => Carried(p, t)'
           /\ \A p : (Covered(p) /\ expanded'[p.src] = expanded[p.src]) => Covered(p)'
  <1>1. \A p, t : Carried(p, t) => Carried(p, t)'
    BY DEF Carried
  <1>2. QED
    BY <1>1 DEF Covered

LEMMA CoverInvInit == ExpandInit => CoverInv
  BY DEF ExpandInit, SortInit, NodesInit, CoverInv, Expanding

(* Steps at which no port is left behind and nothing is selected.             *)
LEMMA CoverInvPlace ==
    ASSUME ExpandInv, SortInv, CoverInv, UNCHANGED sortVars,
           Sorted \/ OpenFails \/ RenderFails \/ RenderTag \/ NextMatch
    PROVE  CoverInv'
  <1>1. /\ UNCHANGED << ports, out, verdict, at, expanded, owner, cur, port, Idx >>
        /\ UNCHANGED DistinctRepos
    BY DEF sortVars, Sorted, OpenFails, RenderFails, RenderTag, NextMatch, cur, port, Idx,
           DistinctRepos
  <1>2. pc' \in {"open", "match", "render"} => verdict = "sorted"
    BY DEF Sorted, OpenFails, RenderFails, RenderTag, NextMatch, CoverInv
  <1>3. Expanding' => Expanding /\ Pending' = Pending
    BY DEF Sorted, OpenFails, RenderFails, RenderTag, NextMatch, Expanding, Pending, IsNewest
  <1>4. /\ \A p, t : Carried(p, t)' <=> Carried(p, t)
        /\ \A p : Covered(p)' <=> Covered(p)
    BY <1>1 DEF Covered, Carried
  <1>5. QED
    BY <1>1, <1>2, <1>3, <1>4 DEF CoverInv

LEMMA CoverInvOpen ==
    ASSUME ExpandInv, SortInv, CoverInv, UNCHANGED sortVars, Open
    PROVE  CoverInv'
  <1>1. /\ UNCHANGED << ports, out, verdict, at, expanded, owner, cur, port, Idx >>
        /\ UNCHANGED DistinctRepos /\ pc = "open" /\ pc' = "match"
    BY DEF sortVars, Open, cur, port, Idx, DistinctRepos
  <1>2. Pending' = todo' /\ (Internal(ports, cur) => todo' = Selected(port.sel, expanded[port.src]))
    BY <1>1 DEF Open, Pending
  <1>3. \A p : Covered(p)' <=> Covered(p)
    BY <1>1 DEF Covered, Carried
  <1>4. QED
    BY <1>1, <1>2, <1>3 DEF CoverInv

(* A port is done when all it matched is.                                    *)
LEMMA CoverInvNextPort ==
    ASSUME ExpandInv, SortInv, CoverInv, UNCHANGED sortVars, NextPort
    PROVE  CoverInv'
  <1>1. /\ UNCHANGED << ports, out, verdict, expanded, owner, Idx, DistinctRepos >>
        /\ pc = "match" /\ pc' = "open" /\ at' = at + 1 /\ todo = {}
    BY DEF sortVars, NextPort, Idx, DistinctRepos
  <1>2. Pending = {} /\ Expanding
    BY <1>1 DEF Pending, Expanding
  <1>3. \A p : Covered(p)' <=> Covered(p)
    BY <1>1 DEF Covered, Carried
  <1>4. ASSUME DistinctRepos, Internal(ports, cur) PROVE Covered(port)
    BY <1>2, <1>4 DEF CoverInv, Covered
  <1>5. ASSUME DistinctRepos, NEW x \in DOMAIN out, x < at + 1, Internal(ports, out[x])
        PROVE  Covered(ports[out[x]])
    <2>1. x \in Nat /\ at \in Nat
      BY DEF ExpandInv, ExpandTypeOK, SortTypeOK
    <2>2. CASE x = at
      BY <1>4, <1>5, <2>2 DEF cur, port
    <2>3. CASE x < at
      BY <1>5, <2>3 DEF CoverInv
    <2>4. QED
      BY <1>5, <2>1, <2>2, <2>3
  <1>6. ~Expanding'
    BY <1>1 DEF Expanding
  <1>7. QED
    BY <1>1, <1>3, <1>5, <1>6 DEF CoverInv

(* What leaves the pending versions has its tags in the graph.               *)
LEMMA CoverInvMatched ==
    ASSUME ExpandInv, SortInv, CoverInv, UNCHANGED sortVars, SkipMatch \/ AddNode
    PROVE  CoverInv'
  <1>1. /\ UNCHANGED << ports, out, verdict, at, cur, port, Idx, DistinctRepos, todo >>
        /\ pc = "render" /\ pc' = "match" /\ tmpl > Len(port.tmpls)
    BY DEF sortVars, SkipMatch, AddNode, cur, port, Idx, DistinctRepos
  <1>2. at <= Len(out) /\ tmpl \in Nat
    BY <1>1 DEF ExpandInv, ExpandTypeOK
  <1>3. /\ cur \in Idx /\ port = ports[cur] /\ at \in DOMAIN out /\ cur = out[at]
        /\ port.repo \in Repos /\ port.tmpls \in Seq(Template)
    BY <1>2, CurTypes DEF ExpandInv, cur
  <1>4. /\ DOMAIN owner \subseteq DOMAIN owner'
        /\ \A i \in DOMAIN got : RefOf(port.repo, got[i]) \in DOMAIN owner'
    <2>1. CASE SkipMatch
      BY <2>1 DEF SkipMatch
    <2>2. CASE AddNode
      <3>1. /\ RefsOf(NewNode) = {RefOf(port.repo, got[k]) : k \in DOMAIN got}
            /\ DOMAIN owner' = DOMAIN owner \cup RefsOf(NewNode)
        BY <2>2, AddNodeFacts
      <3>2. QED
        BY <3>1
    <2>3. QED
      BY <2>1, <2>2
  <1>5. \A r \in Repos : r # port.repo => expanded'[r] = expanded[r]
    <2>1. expanded \in [Repos -> Seq(Tag)]
      BY DEF ExpandInv, ExpandTypeOK
    <2>2. expanded' = expanded \/ expanded' = [expanded EXCEPT ![port.repo] = @ \o got]
      BY DEF SkipMatch, AddNode
    <2>3. QED
      BY <2>1, <2>2
  <1>6. Carried(port, match)'
    <2> SUFFICES ASSUME NEW k \in DOMAIN port.tmpls
                 PROVE  RefOf(port.repo, Render(port.tmpls[k], match)) \in DOMAIN owner'
      <3>1. match' = match
        BY DEF SkipMatch, AddNode
      <3>2. QED
        BY <1>1, <3>1 DEF Carried
    <2>1. k \in 1..(tmpl - 1)
      BY <1>1, <1>2, <1>3
    <2>2. \/ RefOf(port.repo, Render(port.tmpls[k], match)) \in DOMAIN owner
          \/ \E x \in DOMAIN got : got[x] = Render(port.tmpls[k], match)
      BY <1>1, <2>1 DEF ExpandInv, RenderedSoFar
    <2>3. QED
      BY <1>4, <2>2
  <1>7. PICK m : m = match
    OBVIOUS
  <1>8. PICK p : p = port
    OBVIOUS
  <1>9. Carried(p, m)'
    <2>1. match' = match
      BY DEF SkipMatch, AddNode
    <2>2. QED
      BY <1>1, <1>6, <1>7, <1>8, <2>1 DEF Carried
  <1>10. ASSUME DistinctRepos, Internal(ports, cur), NEW t \in Selected(p.sel, expanded[p.src])
         PROVE  t \in todo \/ Carried(p, t)'
    <2>1. t \in todo \cup {m} \/ Carried(p, t)
      BY <1>1, <1>7, <1>8, <1>10 DEF CoverInv, Expanding, Pending
    <2>2. QED
      BY <1>4, <1>9, <2>1, CarriedStable
  <1>11. ASSUME DistinctRepos, NEW x \in DOMAIN out, x < at, Internal(ports, out[x])
         PROVE  Covered(ports[out[x]])'
    <2>1. Covered(ports[out[x]])
      BY <1>11 DEF CoverInv
    <2>2. ports[out[x]].src # port.repo
      BY <1>2, <1>11, UpstreamIsPast DEF ExpandInv, ExpandTypeOK, SortTypeOK
    <2>3. PICK q : q = ports[out[x]]
      OBVIOUS
    <2>4. out[x] \in Idx /\ ports \in Configs
      BY DEF ExpandInv, ExpandTypeOK, SortTypeOK
    <2>5. q.src \in Repos
      BY <1>11, <2>3, <2>4, PortTypes DEF Internal
    <2>6. Covered(q)'
      BY <1>4, <1>5, <2>1, <2>2, <2>3, <2>5, CarriedStable
    <2>7. QED
      BY <1>1, <2>3, <2>6 DEF Covered, Carried
  <1>12. ASSUME DistinctRepos, Internal(ports, cur) PROVE expanded'[p.src] = expanded[p.src]
    <2>1. at <= at
      BY DEF ExpandInv, ExpandTypeOK
    <2>2. p.src # port.repo
      BY <1>2, <1>3, <1>8, <1>12, <2>1, UpstreamIsPast
    <2>3. p.src \in Repos
      BY <1>2, <1>8, <1>12, <1>3, CurTypes DEF ExpandInv, Internal
    <2>4. QED
      BY <1>5, <2>2, <2>3
  <1>13. Pending' = todo
    BY <1>1 DEF Pending
  <1>14. ASSUME DistinctRepos, Internal(ports, cur)
         PROVE  \A t \in Selected(port'.sel, expanded'[port'.src]) : t \in Pending' \/ Carried(port, t)'
    <2>1. \A t : Carried(port, t)' <=> Carried(p, t)'
      BY <1>1, <1>8 DEF Carried
    <2>2. QED
      BY <1>1, <1>8, <1>10, <1>12, <1>13, <1>14, <2>1
  <1>15. QED
    BY <1>1, <1>11, <1>14 DEF CoverInv

LEMMA CoverInvStep ==
    ASSUME ExpandInv, SortInv, CoverInv, [ExpandNext]_expandVars
    PROVE  CoverInv'
  <1>1. CASE SortNext /\ UNCHANGED nodesVars
    <2>1. pc' = pc /\ at' = at
      BY <1>1 DEF nodesVars
    <2>2. verdict = "sorting"
      BY <1>1, StillSorting
    <2>3. pc = "sort" /\ at = 1
      BY <2>2 DEF ExpandInv, SortDone
    <2>4. out' \in Seq(Idx')
      BY <1>1, SortInvStep DEF SortInv, SortTypeOK
    <2>5. \A x \in DOMAIN out' : ~(x < 1)
      BY <2>4
    <2>6. QED
      BY <2>1, <2>3, <2>5 DEF CoverInv, Expanding
  <1>2. CASE NodesNext /\ UNCHANGED sortVars
    BY <1>2, CoverInvPlace, CoverInvOpen, CoverInvNextPort, CoverInvMatched DEF NodesNext
  <1>3. CASE UNCHANGED expandVars
    <2>1. /\ UNCHANGED << ports, out, verdict, pc, at, todo, match, expanded, owner >>
          /\ UNCHANGED << cur, port, Idx >>
      BY <1>3 DEF expandVars, sortVars, nodesVars, cur, port, Idx
    <2>2. /\ UNCHANGED << DistinctRepos, Pending, Expanding >>
          /\ \A p, t : Carried(p, t)' <=> Carried(p, t)
          /\ \A p : Covered(p)' <=> Covered(p)
      BY <2>1 DEF DistinctRepos, Pending, Expanding, Covered, Carried
    <2>3. QED
      BY <2>1, <2>2 DEF CoverInv
  <1>4. QED
    BY <1>1, <1>2, <1>3 DEF ExpandNext

(* When no two ports build the same repository, every version an internal     *)
(* port selects from what its upstream ends up with is in the graph.         *)
THEOREM ExpandCovered == ExpandSpec => []CoveredIfDistinct
  <1>1. ASSUME ExpandInv, SortInv, CoverInv PROVE CoveredIfDistinct
    <2> SUFFICES ASSUME DistinctRepos, Expanded, NEW c \in Idx, Internal(ports, c)
                 PROVE  Covered(ports[c])
      BY DEF CoveredIfDistinct, UpstreamComplete
    <2>1. Listed = Idx
      BY <1>1, AllListed DEF CoverInv, Expanded, SortInv, Phases
    <2>2. PICK x \in DOMAIN out : out[x] = c
      BY <2>1 DEF Listed
    <2>3. x < at
      <3>1. x \in 1..Len(out) /\ at \in Nat /\ Len(out) \in Nat /\ at > Len(out)
        BY <1>1 DEF ExpandInv, ExpandTypeOK, SortTypeOK, Expanded
      <3>2. QED
        BY <3>1
    <2>4. QED
      BY <1>1, <2>2, <2>3 DEF CoverInv
  <1>2. ExpandSpec => []SortInv
    BY ExpandSorts, SortInvariant, PTL
  <1>3. ExpandInv /\ SortInv /\ CoverInv /\ [ExpandNext]_expandVars => CoverInv'
    BY CoverInvStep
  <1>4. ExpandSpec => []CoverInv
    BY <1>2, <1>3, CoverInvInit, ExpandInvariant, PTL DEF ExpandSpec
  <1>5. QED
    BY <1>1, <1>2, <1>4, ExpandInvariant, PTL
-----------------------------------------------------------------------------
(* The tree over a selection of the nodes.  The primary tag names the node.  *)
LEMMA OneNode ==
    ASSUME ExpandInv, NEW i \in DOMAIN nodes, NEW j \in DOMAIN nodes,
           Id(nodes[i]) = Id(nodes[j])
    PROVE  i = j
  <1>1. \A k \in DOMAIN nodes : 1 \in DOMAIN nodes[k].tags
    <2> SUFFICES ASSUME NEW k \in DOMAIN nodes PROVE 1 \in DOMAIN nodes[k].tags
      OBVIOUS
    <2>1. nodes[k] \in Node /\ nodes[k].tags # << >>
      BY DEF ExpandInv, ExpandTypeOK, NodeShape
    <2>2. nodes[k].tags \in Seq(Tag)
      BY <2>1 DEF Node
    <2>3. QED
      BY <2>1, <2>2
  <1>2. Id(nodes[i]) \in RefsOf(nodes[i]) /\ Id(nodes[j]) \in RefsOf(nodes[j])
    BY <1>1 DEF Id, RefsOf
  <1>3. QED
    BY <1>2 DEF ExpandInv, UniqueOwner

LEMMA WalkUnfold ==
    ASSUME NEW S, IsFiniteSet(S)
    PROVE  /\ Lines(S)[0] = Roots(S)
           /\ \A d \in 1..(Cardinality(S) + 1) :
                 Lines(S)[d] = Ids(UNION {children(S, ref) : ref \in Lines(S)[d - 1]})
  <1> DEFINE n == Cardinality(S) + 1
             Below(x) == Ids(UNION {children(S, ref) : ref \in x})
             X == SUBSET (Roots(S) \cup Ids(S))
             under == [d \in 1..n |-> [x \in X |-> Below(x)]]
             Solves(w) == w = [d \in Depths(S) |-> IF d = 0 THEN Roots(S) ELSE Below(w[d - 1])]
             walk == CHOOSE w : Solves(w)
  <1>1. n \in Nat /\ Depths(S) = 0..n
    BY FS_CardinalityType DEF Depths
  <1>2. \A x : Below(x) \in X
    BY DEF Ids, children
  <1>3. under \in [1..n -> [X -> X]] /\ Roots(S) \in X
    BY <1>2
  <1>4. PICK w : Iterates(w, n, X, Roots(S), under)
    <2> HIDE DEF n, X, under
    <2>1. QED
      BY <1>1, <1>3, IterationExists
  <1>5. \A d \in 1..n : w[d] = Below(w[d - 1])
    <2> SUFFICES ASSUME NEW d \in 1..n PROVE w[d] = Below(w[d - 1])
      OBVIOUS
    <2>1. d - 1 \in 0..n
      BY <1>1
    <2>2. w[d - 1] \in X
      BY <1>4, <2>1 DEF Iterates
    <2>3. under[d][w[d - 1]] = Below(w[d - 1])
      <3> HIDE DEF X, Below, n
      <3>1. QED
        BY <2>2
    <2>4. QED
      BY <1>4, <2>3 DEF Iterates
  <1>6. Solves(w)
    <2> HIDE DEF Below, X
    <2>1. \A d \in 0..n : d # 0 => d \in 1..n
      BY <1>1
    <2>2. QED
      BY <1>1, <1>4, <1>5, <2>1 DEF Iterates
  <1>7. Solves(walk)
    BY <1>6, Zenon
  <1>8. Lines(S) = walk
    BY Zenon DEF Lines
  <1>9. \A d \in 0..n : walk[d] = IF d = 0 THEN Roots(S) ELSE Below(walk[d - 1])
    <2> DEFINE h == [d \in Depths(S) |-> IF d = 0 THEN Roots(S) ELSE Below(walk[d - 1])]
    <2>1. walk = h
      BY <1>7, Zenon
    <2> HIDE DEF walk, Below
    <2>2. \A d \in 0..n : h[d] = IF d = 0 THEN Roots(S) ELSE Below(walk[d - 1])
      BY <1>1
    <2>3. QED
      BY <2>1, <2>2, Zenon
  <1> HIDE DEF walk
  <1>10. 0 \in 0..n /\ \A d \in 1..n : d \in 0..n /\ d # 0
    BY <1>1
  <1>11. QED
    BY <1>8, <1>9, <1>10

(* A node without a base is a root, and any other one is printed below the   *)
(* line of its base.                                                         *)
LEMMA WalkFacts ==
    ASSUME ExpandInv, NEW S \in SUBSET DOMAIN nodes, IsFiniteSet(S)
    PROVE  /\ \A i \in S : Id(nodes[i]) \in Lines(S)[0] <=> Baseless(i)
           /\ \A i \in S : \A d \in 1..(Cardinality(S) + 1) :
                 Id(nodes[i]) \in Lines(S)[d] <=>
                    ~Baseless(i) /\ nodes[i].base \in Lines(S)[d - 1]
           /\ \A d \in 1..(Cardinality(S) + 1) : Lines(S)[d] \subseteq Ids(S)
           /\ \A i \in S : ~Baseless(i) =>
                 nodes[i].base \in Ids(S) \/ nodes[i].base \in Lines(S)[0]
  <1>1. \A i \in S, j \in S : Id(nodes[i]) = Id(nodes[j]) => i = j
    BY OneNode
  <1>2. \A i \in S : Id(nodes[i]) \in Lines(S)[0] <=> Baseless(i)
    <2> SUFFICES ASSUME NEW i \in S PROVE Id(nodes[i]) \in Roots(S) <=> Baseless(i)
      BY WalkUnfold
    <2>1. Id(nodes[i]) \notin externalBases(S)
      BY DEF externalBases, Ids
    <2>2. Id(nodes[i]) \in Ids({j \in S : Baseless(j)}) <=> Baseless(i)
      BY <1>1 DEF Ids
    <2>3. QED
      BY <2>1, <2>2 DEF Roots
  <1>3. \A i \in S : \A d \in 1..(Cardinality(S) + 1) :
           Id(nodes[i]) \in Lines(S)[d] <=>
              ~Baseless(i) /\ nodes[i].base \in Lines(S)[d - 1]
    <2> SUFFICES ASSUME NEW i \in S, NEW d \in 1..(Cardinality(S) + 1)
                 PROVE  Id(nodes[i]) \in Ids(UNION {children(S, ref) : ref \in Lines(S)[d - 1]})
                        <=> ~Baseless(i) /\ nodes[i].base \in Lines(S)[d - 1]
      BY WalkUnfold
    <2>1. UNION {children(S, ref) : ref \in Lines(S)[d - 1]}
             = {j \in S : ~Baseless(j) /\ nodes[j].base \in Lines(S)[d - 1]}
      BY DEF children
    <2>2. QED
      BY <1>1, <2>1 DEF Ids
  <1>4. \A d \in 1..(Cardinality(S) + 1) : Lines(S)[d] \subseteq Ids(S)
    BY WalkUnfold DEF Ids, children
  <1>5. \A i \in S : ~Baseless(i) =>
           nodes[i].base \in Ids(S) \/ nodes[i].base \in Lines(S)[0]
    <2> SUFFICES ASSUME NEW i \in S, ~Baseless(i), nodes[i].base \notin Ids(S)
                 PROVE  nodes[i].base \in Roots(S)
      BY WalkUnfold
    <2>1. nodes[i].base \in externalBases(S)
      BY DEF externalBases
    <2>2. QED
      BY <2>1 DEF Roots
  <1>6. QED
    BY <1>2, <1>3, <1>4, <1>5

LEMMA OneDepth ==
    ASSUME ExpandInv, NEW S \in SUBSET DOMAIN nodes, IsFiniteSet(S)
    PROVE  \A d, e \in Depths(S) : \A i \in S :
              Id(nodes[i]) \in Lines(S)[d] /\ Id(nodes[i]) \in Lines(S)[e] => d = e
  <1> DEFINE n == Cardinality(S) + 1
             At(i, d) == Id(nodes[i]) \in Lines(S)[d]
             Bad == {d \in 0..n : \E e \in 0..n, i \in S : At(i, d) /\ At(i, e) /\ d # e}
  <1>1. n \in Nat /\ Depths(S) = 0..n
    BY FS_CardinalityType DEF Depths
  <1>2. SUFFICES ASSUME Bad # {} PROVE FALSE
    BY <1>1
  <1>3. PICK d \in Bad : \A k \in Bad : d <= k
    <2>1. Bad \in SUBSET Nat
      BY <1>1
    <2>2. QED
      BY <1>2, <2>1, LeastNatural
  <1>4. PICK e \in 0..n, i \in S : At(i, d) /\ At(i, e) /\ d # e
    OBVIOUS
  <1>5. d \in 0..n /\ (d # 0 => d \in 1..n /\ d - 1 \in 0..n /\ ~(d <= d - 1))
        /\ (e # 0 => e \in 1..n /\ e - 1 \in 0..n /\ ~(d = e - 1 + 1))
    BY <1>1, <1>4
  <1>6. d # 0 /\ e # 0
    BY <1>4, <1>5, WalkFacts
  <1>7. nodes[i].base \in Lines(S)[d - 1] /\ nodes[i].base \in Lines(S)[e - 1]
    BY <1>4, <1>5, <1>6, WalkFacts
  <1>8. d - 1 # e - 1
    BY <1>1, <1>4, <1>5, <1>6
  <1>9. ASSUME NEW j \in S, nodes[i].base = Id(nodes[j]) PROVE FALSE
    <2>1. At(j, d - 1) /\ At(j, e - 1)
      BY <1>7, <1>9
    <2>2. d - 1 \in Bad
      BY <1>5, <1>6, <1>8, <2>1
    <2>3. QED
      BY <1>3, <1>5, <1>6, <2>2
  <1>10. d - 1 # 0 => d - 1 \in 1..n
    BY <1>1, <1>5, <1>6
  <1>11. e - 1 # 0 => e - 1 \in 1..n
    BY <1>1, <1>5, <1>6
  <1>12. nodes[i].base \in Ids(S)
    BY <1>7, <1>8, <1>10, <1>11, WalkFacts
  <1>13. QED
    BY <1>9, <1>12 DEF Ids

LEMMA WalkEnds ==
    ASSUME ExpandInv, NEW S \in SUBSET DOMAIN nodes, IsFiniteSet(S)
    PROVE  Lines(S)[Cardinality(S) + 1] = {}
  <1> DEFINE n == Cardinality(S) + 1
             At(i, d) == Id(nodes[i]) \in Lines(S)[d]
             Empty == {d \in 1..n : \A i \in S : ~At(i, d)}
  <1> SUFFICES ASSUME Lines(S)[n] # {} PROVE FALSE
    OBVIOUS
  <1>1. Cardinality(S) \in Nat /\ n \in Nat /\ n \in 1..n /\ Depths(S) = 0..n
    BY FS_CardinalityType DEF Depths
  <1>2. n \notin Empty
    BY <1>1, WalkFacts DEF Ids
  <1>3. Empty = {}
    <2> SUFFICES ASSUME Empty # {} PROVE FALSE
      OBVIOUS
    <2>1. PICK d \in Empty : \A k \in Empty : k <= d
      <3>1. Empty \in SUBSET (1..n)
        OBVIOUS
      <3> HIDE DEF Empty
      <3>2. QED
        BY <1>1, <3>1, GreatestNatural
    <2>2. d \in 1..n /\ d + 1 \in 1..n /\ d + 1 - 1 = d /\ ~(d + 1 <= d)
      BY <1>1, <1>2
    <2>3. d + 1 \notin Empty
      BY <2>1, <2>2
    <2>4. PICK i \in S : At(i, d + 1)
      BY <2>2, <2>3
    <2>5. nodes[i].base \in Lines(S)[d]
      BY <2>2, <2>4, WalkFacts
    <2>6. nodes[i].base \in Ids(S)
      BY <2>2, <2>5, WalkFacts
    <2>7. QED
      BY <2>1, <2>5, <2>6 DEF Ids
  <1> DEFINE f == [d \in 1..n |-> CHOOSE i \in S : At(i, d)]
  <1>4. \A d \in 1..n : f[d] \in S /\ At(f[d], d)
    <2> SUFFICES ASSUME NEW d \in 1..n PROVE f[d] \in S /\ At(f[d], d)
      OBVIOUS
    <2>1. \E i \in S : At(i, d)
      BY <1>3
    <2>2. QED
      BY <2>1, Zenon
  <1>5. f \in [1..n -> S]
    BY <1>4
  <1>6. IsFiniteSet(1..n) /\ Cardinality(1..n) = n /\ Cardinality(S) < n
    BY <1>1, IntervalSize
  <1>7. PICK d \in 1..n, e \in 1..n : d # e /\ f[d] = f[e]
    <2> HIDE DEF f
    <2>1. QED
      BY <1>5, <1>6, FS_PigeonHole
  <1>8. d \in Depths(S) /\ e \in Depths(S)
    BY <1>1
  <1> HIDE DEF f
  <1>9. QED
    BY <1>4, <1>7, <1>8, OneDepth

LEMMA TreeExact ==
    ASSUME ExpandInv
    PROVE  TreeOnce
  <1> SUFFICES ASSUME NEW S \in SUBSET DOMAIN nodes
               PROVE  /\ Lines(S)[Cardinality(S) + 1] = {}
                      /\ \A i \in S : \/ Cardinality(DepthsOf(S, i)) = 1
                                      \/ /\ DepthsOf(S, i) = {}
                                         /\ \E j \in S : /\ nodes[i].base = Id(nodes[j])
                                                         /\ DepthsOf(S, j) = {}
    BY DEF TreeOnce
  <1>1. IsFiniteSet(S)
    <2>1. Len(nodes) \in Nat /\ DOMAIN nodes = 1..Len(nodes)
      BY DEF ExpandInv, ExpandTypeOK
    <2>2. QED
      BY <2>1, IntervalSize, FS_Subset
  <1> DEFINE n == Cardinality(S) + 1
  <1>2. Cardinality(S) \in Nat /\ Depths(S) = 0..n
    BY <1>1, FS_CardinalityType DEF Depths
  <1>3. ASSUME NEW i \in S, DepthsOf(S, i) # {} PROVE Cardinality(DepthsOf(S, i)) = 1
    <2>1. PICK d \in DepthsOf(S, i) : TRUE
      BY <1>3
    <2>2. DepthsOf(S, i) = {d}
      BY <1>1, <2>1, OneDepth DEF DepthsOf
    <2>3. QED
      BY <2>2, FS_Singleton
  <1>4. ASSUME NEW i \in S, DepthsOf(S, i) = {}
        PROVE  \E j \in S : nodes[i].base = Id(nodes[j]) /\ DepthsOf(S, j) = {}
    <2>1. 0 \in Depths(S) /\ 1 \in Depths(S) /\ 1 \in 1..n /\ 1 - 1 = 0
      BY <1>2
    <2>2. Id(nodes[i]) \notin Lines(S)[0] /\ Id(nodes[i]) \notin Lines(S)[1]
      BY <1>4, <2>1 DEF DepthsOf
    <2>3. ~Baseless(i) /\ nodes[i].base \notin Lines(S)[0]
      BY <1>1, <2>1, <2>2, WalkFacts
    <2>4. nodes[i].base \in Ids(S)
      BY <1>1, <2>3, WalkFacts
    <2>5. PICK j \in S : nodes[i].base = Id(nodes[j])
      BY <2>4 DEF Ids
    <2>6. ASSUME NEW d \in DepthsOf(S, j) PROVE FALSE
      <3>1. d \in Depths(S) /\ nodes[i].base \in Lines(S)[d]
        BY <2>5, <2>6 DEF DepthsOf
      <3>2. d # n
        BY <1>1, <3>1, WalkEnds
      <3>3. d + 1 \in 1..n /\ d + 1 \in Depths(S)
        BY <1>2, <3>1, <3>2
      <3>4. Id(nodes[i]) \in Lines(S)[d + 1]
        <4> DEFINE e == d + 1
        <4>1. e \in 1..(Cardinality(S) + 1) /\ nodes[i].base \in Lines(S)[e - 1]
          <5>1. e - 1 = d
            BY <1>2, <3>1
          <5> HIDE DEF e
          <5>2. nodes[i].base \in Lines(S)[e - 1]
            BY <3>1, <5>1
          <5>3. QED
            BY <3>3, <5>2 DEF e
        <4> HIDE DEF e
        <4>2. Id(nodes[i]) \in Lines(S)[e]
          BY <1>1, <2>3, <4>1, WalkFacts
        <4>3. QED
          BY <4>2 DEF e
      <3>5. QED
        BY <1>4, <3>3, <3>4 DEF DepthsOf
    <2>7. QED
      BY <2>5, <2>6
  <1>5. QED
    BY <1>1, <1>3, <1>4, WalkEnds

(* The tree of `clade graph`, for every list of ports and every selection of *)
(* the nodes: the walk ends, no node is printed twice, and one is left out   *)
(* only together with the node it is built on.                               *)
THEOREM ExpandTreeOnce == ExpandSpec => []TreeOnce
  BY ExpandInvariant, TreeExact, PTL
===============================================================================
