---------------------------- MODULE DispatchProofs ----------------------------
(***************************************************************************)
(* The build automation, for all graphs and however often the refresh      *)
(* workflow starts, runs are dispatched by hand and upstream moves.        *)
(***************************************************************************)
EXTENDS Dispatch, OrderLemmas

LEMMA NodeFacts ==
    ASSUME Rooted
    PROVE  /\ parent \in Seq(Nat) /\ Nodes = 1..Len(parent) /\ Len(parent) \in Nat
           /\ \A n \in Nodes : /\ n \in Nat /\ n # 0 /\ n \in Refs
                               /\ parent[n] \in Nat /\ parent[n] \in Refs /\ parent[n] < n
                               /\ parent[n] # 0 => parent[n] \in Nodes
           /\ 0 \in Refs /\ Refs \subseteq Nat
  <1>1. parent \in Seq(Nat) /\ \A n \in DOMAIN parent : parent[n] < n
    BY DEF Rooted, Nodes
  <1>2. Nodes = 1..Len(parent) /\ Len(parent) \in Nat
    BY <1>1 DEF Nodes
  <1>3. ASSUME NEW n \in Nodes
        PROVE  /\ n \in Nat /\ n # 0 /\ n \in Refs
               /\ parent[n] \in Nat /\ parent[n] \in Refs /\ parent[n] < n
               /\ parent[n] # 0 => parent[n] \in Nodes
    BY <1>1, <1>2 DEF Nodes, Refs
  <1>4. QED
    BY <1>1, <1>2, <1>3 DEF Refs
-----------------------------------------------------------------------------
(* What is outdated: what is stale, and what is built on something outdated. *)
LEMMA OutdatedExists ==
    ASSUME Rooted, NEW h
    PROVE  \E bad : bad = [n \in Nodes |-> Stale(h, n) \/ (parent[n] # 0 /\ bad[parent[n]])]
  <1> DEFINE n0 == Len(parent)
  <1>1. Nodes = 1..n0 /\ n0 \in Nat
        /\ \A n \in Nodes : /\ parent[n] # 0 <=> parent[n] \in 1..(n - 1)
                            /\ parent[n] # 0 => parent[n] \in Nodes
    BY NodeFacts
  <1>2. PICK up : up = [j \in 1..n0 |->
                          IF parent[j] \in 1..(j - 1) THEN {j} \cup up[parent[j]] ELSE {j}]
    BY <1>1, AncestorsExist
  <1> DEFINE bad == [n \in Nodes |-> \E m \in up[n] : Stale(h, m)]
  <1>3. \A n \in Nodes : up[n] = IF parent[n] # 0 THEN {n} \cup up[parent[n]] ELSE {n}
    <2> DEFINE F(f) == [j \in 1..n0 |->
                          IF parent[j] \in 1..(j - 1) THEN {j} \cup f[parent[j]] ELSE {j}]
    <2>1. \A n \in 1..n0 : F(up)[n] = IF parent[n] \in 1..(n - 1) THEN {n} \cup up[parent[n]] ELSE {n}
      OBVIOUS
    <2>2. up = F(up)
      BY <1>2
    <2> HIDE DEF F
    <2>3. \A n \in 1..n0 : up[n] = IF parent[n] \in 1..(n - 1) THEN {n} \cup up[parent[n]] ELSE {n}
      BY <2>1, <2>2
    <2>4. QED
      BY <1>1, <2>3
  <1>4. ASSUME NEW n \in Nodes
        PROVE  (\E m \in up[n] : Stale(h, m))
                  <=> Stale(h, n) \/ (parent[n] # 0 /\ \E m \in up[parent[n]] : Stale(h, m))
    <2>1. CASE parent[n] # 0
      <3>1. up[n] = {n} \cup up[parent[n]]
        BY <1>3, <1>4, <2>1
      <3>2. QED
        BY <2>1, <3>1
    <2>2. CASE parent[n] = 0
      <3>1. up[n] = {n}
        BY <1>3, <1>4, <2>2
      <3>2. QED
        BY <2>2, <3>1
    <2>3. QED
      BY <2>1, <2>2
  <1>5. \A n \in Nodes : bad[n] = (Stale(h, n) \/ (parent[n] # 0 /\ bad[parent[n]]))
    <2> SUFFICES ASSUME NEW n \in Nodes
                 PROVE  bad[n] = (Stale(h, n) \/ (parent[n] # 0 /\ bad[parent[n]]))
      OBVIOUS
    <2>1. bad[n] = \E m \in up[n] : Stale(h, m)
      BY Zenon
    <2>2. parent[n] # 0 => bad[parent[n]] = \E m \in up[parent[n]] : Stale(h, m)
      BY <1>1, Zenon
    <2> HIDE DEF bad
    <2>3. QED
      BY <1>4, <2>1, <2>2, Zenon
  <1>6. bad = [n \in Nodes |-> Stale(h, n) \/ (parent[n] # 0 /\ bad[parent[n]])]
    BY <1>5, Zenon
  <1>7. QED
    BY <1>6, Zenon

LEMMA OutdatedFacts ==
    ASSUME Rooted, NEW h
    PROVE  /\ OutdatedIn(h) \subseteq Nodes
           /\ \A n \in Nodes : Stale(h, n) => n \in OutdatedIn(h)
           /\ \A n \in Nodes : (parent[n] # 0 /\ parent[n] \in OutdatedIn(h)) => n \in OutdatedIn(h)
           /\ (\A n \in Nodes : ~Stale(h, n)) => OutdatedIn(h) = {}
  <1> DEFINE F(f) == [n \in Nodes |-> Stale(h, n) \/ (parent[n] # 0 /\ f[parent[n]])]
             bad == CHOOSE f : f = F(f)
  <1>1. bad = F(bad)
    <2>1. \E f : f = F(f)
      BY OutdatedExists
    <2>2. QED
      BY <2>1, Zenon
  <1>2. OutdatedIn(h) = {n \in Nodes : bad[n]}
    BY DEF OutdatedIn
  <1>3. \A n \in Nodes : F(bad)[n] = (Stale(h, n) \/ (parent[n] # 0 /\ bad[parent[n]]))
    BY Zenon
  <1> HIDE DEF F, bad
  <1>4. \A n \in Nodes : bad[n] = (Stale(h, n) \/ (parent[n] # 0 /\ bad[parent[n]]))
    BY <1>1, <1>3, Zenon
  <1>5. \A n \in Nodes : n \in OutdatedIn(h) <=> Stale(h, n) \/ (parent[n] # 0 /\ parent[n] \in OutdatedIn(h))
    <2> SUFFICES ASSUME NEW n \in Nodes
                 PROVE  n \in OutdatedIn(h) <=> Stale(h, n) \/ (parent[n] # 0 /\ parent[n] \in OutdatedIn(h))
      OBVIOUS
    <2>1. parent[n] # 0 => parent[n] \in Nodes
      BY NodeFacts
    <2>2. QED
      BY <1>2, <1>4, <2>1, Zenon
  <1>6. ASSUME \A n \in Nodes : ~Stale(h, n), OutdatedIn(h) # {} PROVE FALSE
    <2>1. OutdatedIn(h) \in SUBSET Nat
      BY <1>2, NodeFacts
    <2>2. PICK n \in OutdatedIn(h) : \A m \in OutdatedIn(h) : n <= m
      BY <1>6, <2>1, LeastNatural
    <2>3. n \in Nodes /\ parent[n] \in OutdatedIn(h)
      BY <1>2, <1>5, <1>6, <2>2
    <2>4. QED
      BY <2>2, <2>3, NodeFacts
  <1>7. QED
    BY <1>2, <1>5, <1>6
-----------------------------------------------------------------------------
LEMMA HeldFacts ==
    ASSUME DispatchTypeOK, NEW n \in Refs
    PROVE  /\ held[n] \in Image /\ held[n].id \in Nat /\ held[n].created \in Nat
           /\ held[n].label \in Nat /\ held[n].from \in Nat
  BY DEF DispatchTypeOK, Image

LEMMA RunFacts ==
    ASSUME DispatchTypeOK, NEW i \in DOMAIN runs
    PROVE  /\ runs[i] \in BuildRuns /\ i \in Nat
           /\ runs[i].node \in Nodes /\ runs[i].own \in BOOLEAN /\ runs[i].stage \in Stages
           /\ runs[i].label \in Nat /\ runs[i].from \in Nat /\ runs[i].id \in Nat
           /\ runs[i].created \in Nat
           /\ parent[runs[i].node] \in Refs /\ baseOf(i) \in Image /\ baseOf(i).id \in Nat
           /\ held[runs[i].node] \in Image /\ held[runs[i].node].id \in Nat
  <1>1. runs[i] \in BuildRuns /\ i \in Nat
    BY DEF DispatchTypeOK
  <1>2. runs[i].node \in Nodes
    BY <1>1 DEF BuildRuns
  <1>3. parent[runs[i].node] \in Refs /\ runs[i].node \in Refs
    BY <1>2, NodeFacts DEF DispatchTypeOK
  <1>4. QED
    BY <1>1, <1>3, HeldFacts DEF BuildRuns, baseOf

(* At the start nothing has run, and each node stands as one of three ways.  *)
LEMMA StartFacts ==
    ASSUME Init
    PROVE  /\ Rooted /\ judge \in [Nodes -> {"created", "digest"}] /\ events \in Nat
           /\ held = [n \in Refs |-> held[n]]
           /\ \A n \in Refs :
                 \/ n = 0 /\ held[n] = [id |-> 1, created |-> Len(parent), label |-> 0, from |-> 0]
                 \/ n # 0 /\ held[n] = [id |-> 0, created |-> 0, label |-> 0, from |-> 0]
                 \/ n # 0 /\ held[n] = [id |-> n + 1, created |-> Len(parent) - n,
                                       label |-> 0, from |-> 0]
                 \/ n # 0 /\ held[n] = [id |-> n + 1, created |-> Len(parent) + n,
                                       label |-> parent[n] + 1, from |-> parent[n] + 1]
  <1>1. PICK s \in Setups :
          /\ parent = s.parent /\ judge = s.judge /\ events = s.events
          /\ held = [n \in Refs |->
                IF n = 0 THEN Plain(1, Len(parent))
                ELSE IF s.start[n] = "missing" THEN NoImage
                ELSE IF s.start[n] = "behind"
                     THEN Plain(n + 1, Len(parent) - n)
                ELSE [id |-> n + 1, created |-> Len(parent) + n,
                      label |-> parent[n] + 1, from |-> parent[n] + 1]]
    BY DEF Init
  <1>2. Rooted /\ judge \in [Nodes -> {"created", "digest"}] /\ events \in Nat
    BY <1>1, DispatchAssumption DEF Rooted, Nodes
  <1>3. held = [n \in Refs |-> held[n]]
    BY <1>1
  <1>4. \A n \in Refs : held[n] =
           IF n = 0 THEN [id |-> 1, created |-> Len(parent), label |-> 0, from |-> 0]
           ELSE IF s.start[n] = "missing" THEN [id |-> 0, created |-> 0, label |-> 0, from |-> 0]
           ELSE IF s.start[n] = "behind"
                THEN [id |-> n + 1, created |-> Len(parent) - n, label |-> 0, from |-> 0]
           ELSE [id |-> n + 1, created |-> Len(parent) + n,
                 label |-> parent[n] + 1, from |-> parent[n] + 1]
    BY <1>1 DEF NoImage, Plain
  <1>5. QED
    BY <1>2, <1>3, <1>4

LEMMA InvBegin == Init => RunsInv
  <1> SUFFICES ASSUME Init PROVE RunsInv
    OBVIOUS
  <1>1. /\ Rooted /\ lastId = Len(parent) + 1 /\ runs = << >> /\ pc = "idle"
        /\ plan = {} /\ watched = 0 /\ first = 1 /\ stray = FALSE /\ quiet = FALSE
        /\ past = [n \in Refs |-> {held[n]} \ {NoImage}]
        /\ apart = TRUE /\ lastMade = 2 * Len(parent)
    BY StartFacts DEF Init
  <1>2. /\ Len(parent) \in Nat
        /\ \A n \in Refs : /\ n \in 0..Len(parent)
                           /\ n # 0 => parent[n] \in Nat
    BY <1>1, NodeFacts DEF Refs
  <1>10. ASSUME NEW n \in Refs
        PROVE  /\ n = 0 => held[n].id = 1 /\ held[n].label = 0 /\ held[n].from = 0
               /\ n # 0 => /\ held[n].id \in {0, n + 1} /\ held[n].label = held[n].from
                           /\ held[n].from \in {0, parent[n] + 1}
    BY StartFacts
  <1>4. held \in [Refs -> Image]
    <2>1. ASSUME NEW n \in Refs PROVE held[n] \in Image
      <3>1. \E a, b, c, d \in Nat : held[n] = [id |-> a, created |-> b, label |-> c, from |-> d]
        <4>1. n \in 0..Len(parent) /\ Len(parent) \in Nat /\ (n # 0 => parent[n] \in Nat)
          BY <1>2
        <4>2. /\ n + 1 \in Nat /\ Len(parent) - n \in Nat /\ Len(parent) + n \in Nat
              /\ (n # 0 => parent[n] + 1 \in Nat) /\ 0 \in Nat /\ 1 \in Nat
          BY <4>1
        <4>3. QED
          BY <4>1, <4>2, StartFacts
      <3>2. QED
        BY <3>1 DEF Image
    <2>2. held = [n \in Refs |-> held[n]]
      BY StartFacts
    <2>3. QED
      BY <2>1, <2>2
  <1>5. DispatchTypeOK
    <2>1. past \in [Refs -> SUBSET Image]
      BY <1>1, <1>4
    <2>2. lastMade \in Nat /\ lastId \in Nat
      BY <1>1, <1>2
    <2>3. /\ runs \in Seq(BuildRuns) /\ watched \in 0..Len(runs)
          /\ first \in 1..(Len(runs) + 1) /\ plan \subseteq Nodes
      BY <1>1
    <2>4. QED
      BY <1>1, <1>4, <2>1, <2>2, <2>3, StartFacts DEF DispatchTypeOK
  <1>6. Numbered
    <2>1. held[0].id # 0
      BY <1>10 DEF Refs
    <2>2. ASSUME NEW n \in Refs PROVE held[n].id <= lastId /\ held[n].from <= lastId
      <3>1. n \in Nat /\ Len(parent) \in Nat /\ lastId = Len(parent) + 1 /\ n <= Len(parent)
            /\ (n # 0 => parent[n] \in Nat /\ parent[n] < n)
        BY <1>1, NodeFacts DEF Refs
      <3>2. QED
        BY <1>10, <3>1
    <2>3. \A n \in Nodes : /\ held[n].label <= held[n].from
                           /\ held[parent[n]].id # 0 => held[n].from <= held[parent[n]].id
      <3> SUFFICES ASSUME NEW n \in Nodes
                   PROVE  /\ held[n].label <= held[n].from
                          /\ held[parent[n]].id # 0 => held[n].from <= held[parent[n]].id
        OBVIOUS
      <3>1. n \in Refs /\ n # 0 /\ n \in Nat /\ parent[n] \in Refs /\ parent[n] \in Nat
        BY <1>1, NodeFacts
      <3>2. held[n].label = held[n].from /\ held[n].from \in {0, parent[n] + 1}
        BY <1>10, <3>1
      <3>3. held[parent[n]].id \in {0, parent[n] + 1}
        BY <1>10, <3>1
      <3>4. QED
        BY <3>1, <3>2, <3>3
    <2>4. DOMAIN runs = {}
      BY <1>1
    <2>5. QED
      BY <2>1, <2>2, <2>3, <2>4 DEF Numbered
  <1>7. Today = {}
    BY <1>1 DEF Today
  <1>8. DayOrder /\ Waited /\ BaseFirst /\ UnderWay
    BY <1>1, <1>7 DEF DayOrder, Waited, StopsOnFailure, BaseFirst, UnderWay
  <1>9. QED
    BY <1>5, <1>6, <1>8 DEF RunsInv
-----------------------------------------------------------------------------
(* A new day: yesterday's runs are no runs of today.                         *)
LEMMA InvRefresh ==
    ASSUME RunsInv, Refresh
    PROVE  RunsInv'
  <1>1. PICK seen \in [Refs -> UNION {past[n] : n \in Refs} \cup {NoImage}], build \in BOOLEAN :
          /\ plan' = IF build THEN OutdatedIn(seen) ELSE {}
          /\ quiet' = (/\ build
                       /\ seen = held
                       /\ \A i \in DOMAIN runs : runs[i].stage \in {"success", "failure"})
    BY DEF Refresh
  <1>2. /\ UNCHANGED << parent, judge, held, lastId, lastMade, past, runs, watched, apart >>
        /\ events > 0 /\ events' = events - 1
        /\ pc' = IF plan' = {} THEN "done" ELSE "dispatch"
        /\ first' = Len(runs) + 1 /\ stray' = FALSE
    BY DEF Refresh, Event, registryVars
  <1>3. quiet' \in BOOLEAN /\ (quiet' => /\ plan' = OutdatedIn(held)
                                         /\ \A i \in DOMAIN runs : Over(i))
    BY <1>1 DEF Over
  <1>4. plan' \subseteq Nodes
    BY <1>1, OutdatedFacts DEF RunsInv, DispatchTypeOK
  <1>5. DispatchTypeOK'
    <2>1. events' \in Nat
      BY <1>2 DEF RunsInv, DispatchTypeOK
    <2>2. Rooted'
      BY <1>2 DEF RunsInv, DispatchTypeOK, Rooted, Nodes
    <2>3. first' \in 1..(Len(runs) + 1)
      BY <1>2 DEF RunsInv, DispatchTypeOK
    <2>4. UNCHANGED << Nodes, Refs, BuildRuns >>
      BY <1>2 DEF Nodes, Refs, BuildRuns
    <2>5. QED
      BY <1>2, <1>3, <1>4, <2>1, <2>2, <2>3, <2>4 DEF RunsInv, DispatchTypeOK
  <1>6. Numbered'
    BY <1>2 DEF RunsInv, Numbered, Nodes, Refs, baseOf, Making
  <1>7. Today' = {} /\ \A i \in DOMAIN runs : i < first' /\ ~(i >= first')
    BY <1>2 DEF Today, RunsInv, DispatchTypeOK
  <1>8. DayOrder' /\ Waited' /\ BaseFirst'
    BY <1>2, <1>7 DEF DayOrder, Waited, StopsOnFailure, BaseFirst
  <1>9. UnderWay'
    <2> SUFFICES ASSUME quiet' PROVE
             /\ \A n \in Nodes : (parent[n] # 0 /\ parent[n] \in plan') => n \in plan'
             /\ \A n \in Nodes : Stale(held, n) => n \in plan'
             /\ \A i \in DOMAIN runs : Over(i)
      BY <1>2, <1>7 DEF UnderWay, Covered, Nodes, Stale, Judged, Over
    <2>1. QED
      BY <1>3, OutdatedFacts DEF RunsInv, DispatchTypeOK
  <1>10. QED
    BY <1>5, <1>6, <1>8, <1>9 DEF RunsInv
-----------------------------------------------------------------------------
(* Steps of the refresh job that touch no run.                               *)
LEMMA SameRuns ==
    ASSUME RunsInv,
           UNCHANGED << parent, judge, held, lastId, lastMade, past, runs, plan, first, events, apart >>,
           pc' \in {"idle", "dispatch", "list", "watch", "done", "failed"},
           watched' \in 0..Len(runs), stray' \in BOOLEAN, quiet' \in BOOLEAN,
           stray => stray', quiet' => quiet /\ ~stray',
           Waited'
    PROVE  RunsInv'
  <1>1. UNCHANGED << Nodes, Refs, BuildRuns, Today, Rooted >>
    BY DEF Nodes, Refs, BuildRuns, Today, Rooted
  <1>2. DispatchTypeOK'
    BY <1>1 DEF RunsInv, DispatchTypeOK
  <1>3. Numbered' /\ DayOrder'
    BY <1>1 DEF RunsInv, Numbered, DayOrder, baseOf, Making
  <1>4. BaseFirst'
    BY <1>1 DEF RunsInv, BaseFirst
  <1>5. UnderWay'
    <2> SUFFICES ASSUME quiet', quiet, ~stray' PROVE UnderWay'
      BY DEF UnderWay
    <2>1. (\A n : Covered(n)' = Covered(n)) /\ \A n : Stale(held, n)' = Stale(held, n)
      BY <1>1 DEF Covered, Stale, Judged
    <2>2. QED
      BY <1>1, <2>1 DEF RunsInv, UnderWay, Follows, Over, baseOf, Making
  <1>6. QED
    BY <1>2, <1>3, <1>4, <1>5 DEF RunsInv

(* The run that is watched is the one dispatched last, or the day is marked. *)
LEMMA InvList ==
    ASSUME RunsInv, List
    PROVE  RunsInv'
  <1>1. PICK i \in Registered :
          /\ watched' = i
          /\ stray' = (stray \/ ~(runs[i].own /\ \A j \in DOMAIN runs : runs[j].own => j <= i))
          /\ quiet' = (quiet /\ (runs[i].own /\ \A j \in DOMAIN runs : runs[j].own => j <= i))
    BY DEF List
  <1>2. /\ pc = "list" /\ pc' = "watch"
        /\ UNCHANGED << parent, judge, held, lastId, lastMade, past, runs, plan, events, first, apart >>
    BY DEF List, registryVars
  <1>3. i \in DOMAIN runs /\ i \in 0..Len(runs)
    BY <1>1 DEF Registered, RunsInv, DispatchTypeOK
  <1>4. /\ stray' \in BOOLEAN /\ quiet' \in BOOLEAN /\ (stray => stray')
        /\ quiet' => quiet /\ ~stray'
        /\ ~stray' => ~stray /\ runs[i].own /\ \A j \in DOMAIN runs : runs[j].own => j <= i
    BY <1>1 DEF RunsInv, UnderWay
  <1>5. Waited'
    <2> SUFFICES ASSUME ~stray'
                 PROVE  StopsOnFailure' /\ i \in Today /\ \A j \in Today : j <= i
      BY <1>1, <1>2 DEF Waited, Today
    <2>1. \A j \in Today : j \in DOMAIN runs /\ j <= i /\ j >= first
      BY <1>4 DEF Today
    <2>2. PICK k \in Today : TRUE
      BY <1>2 DEF RunsInv, Waited
    <2>3. i >= first
      <3>1. k <= i /\ k >= first /\ k \in Nat /\ i \in Nat /\ first \in Nat
        BY <1>3, <2>1, <2>2 DEF RunsInv, DispatchTypeOK
      <3>2. QED
        BY <3>1
    <2>4. StopsOnFailure'
      BY <1>2, <1>4 DEF RunsInv, Waited, StopsOnFailure, Today
    <2>5. QED
      BY <1>3, <1>4, <2>1, <2>3, <2>4 DEF Today
  <1>6. QED
    BY <1>1, <1>2, <1>3, <1>4, <1>5, SameRuns

LEMMA InvWatch ==
    ASSUME RunsInv, Watch \/ RefreshFails
    PROVE  RunsInv'
  <1>1. UNCHANGED << parent, judge, held, lastId, lastMade, past, runs, plan, watched, events, first,
                     stray, quiet, apart >>
    BY DEF Watch, RefreshFails, registryVars
  <1>2. UNCHANGED Today
    BY <1>1 DEF Today
  <1>3. Waited'
    <2>1. CASE pc' = "failed"
      BY <1>1, <1>2, <2>1 DEF RunsInv, Waited, StopsOnFailure
    <2>2. CASE pc' # "failed"
      <3>1. /\ pc = "watch" /\ runs[watched].stage = "success"
            /\ pc' = IF plan = {} THEN "done" ELSE "dispatch"
        BY <2>2 DEF Watch, RefreshFails, Passed
      <3>2. ~stray => \A j \in Today : runs[j].stage = "success"
        <4> SUFFICES ASSUME ~stray, NEW j \in Today PROVE runs[j].stage = "success"
          OBVIOUS
        <4>1. watched \in Today /\ j <= watched /\ j \in Nat /\ watched \in Nat
          BY <3>1 DEF RunsInv, Waited, DispatchTypeOK, Today
        <4>2. j = watched \/ j < watched
          BY <4>1
        <4>3. QED
          BY <3>1, <4>1, <4>2 DEF RunsInv, Waited, StopsOnFailure
      <3>3. QED
        BY <1>1, <1>2, <3>1, <3>2 DEF RunsInv, Waited, StopsOnFailure
    <2>3. QED
      BY <2>1, <2>2
  <1>4. /\ pc' \in {"idle", "dispatch", "list", "watch", "done", "failed"}
        /\ watched' \in 0..Len(runs) /\ stray' \in BOOLEAN /\ quiet' \in BOOLEAN
        /\ quiet' => ~stray'
    BY <1>1 DEF Watch, RefreshFails, RunsInv, DispatchTypeOK, UnderWay
  <1>5. QED
    BY <1>1, <1>3, <1>4, SameRuns
-----------------------------------------------------------------------------
(* A run that was just accepted has read and built nothing.                  *)
LEMMA Added ==
    ASSUME RunsInv, UNCHANGED << parent, held >>, NEW n \in Nodes, NEW own \in BOOLEAN,
           runs' = Append(runs, Run(n, own))
    PROVE  /\ runs' \in Seq(BuildRuns) /\ Len(runs') = Len(runs) + 1 /\ Len(runs) \in Nat
           /\ DOMAIN runs = 1..Len(runs) /\ DOMAIN runs' = 1..(Len(runs) + 1)
           /\ \A i \in DOMAIN runs : i \in DOMAIN runs' /\ runs'[i] = runs[i]
           /\ LET r == runs'[Len(runs) + 1]
              IN  r.node = n /\ r.own = own /\ r.stage = "accepted"
                  /\ r.label = 0 /\ r.from = 0 /\ r.created = 0 /\ r.id = 0
           /\ \A i \in DOMAIN runs : baseOf(i)' = baseOf(i)
           /\ Numbered' \/ lastId' # lastId
  <1>1. Run(n, own) \in BuildRuns /\ runs \in Seq(BuildRuns)
    BY DEF Run, BuildRuns, Stages, RunsInv, DispatchTypeOK
  <1>2. /\ runs' \in Seq(BuildRuns) /\ Len(runs') = Len(runs) + 1 /\ Len(runs) \in Nat
        /\ DOMAIN runs = 1..Len(runs) /\ DOMAIN runs' = 1..(Len(runs) + 1)
        /\ \A i \in DOMAIN runs : i \in DOMAIN runs' /\ runs'[i] = runs[i]
        /\ runs'[Len(runs) + 1] = Run(n, own)
    BY <1>1, AppendRange
  <1>0. PICK k : k = Len(runs) + 1
    OBVIOUS
  <1>3. /\ runs'[k].node = n /\ runs'[k].own = own /\ runs'[k].stage = "accepted"
        /\ runs'[k].label = 0 /\ runs'[k].from = 0 /\ runs'[k].created = 0 /\ runs'[k].id = 0
    BY <1>0, <1>2 DEF Run
  <1>4. \A i \in DOMAIN runs : baseOf(i)' = baseOf(i)
    BY <1>2 DEF baseOf
  <1>5. ASSUME lastId' = lastId PROVE Numbered'
    <2>1. /\ held'[0].id # 0
          /\ \A m \in Refs' : held'[m].id <= lastId' /\ held'[m].from <= lastId'
          /\ \A m \in Nodes' : /\ held'[m].label <= held'[m].from
                               /\ held'[parent'[m]].id # 0 => held'[m].from <= held'[parent'[m]].id
      BY <1>5 DEF RunsInv, Numbered, Nodes, Refs
    <2>2. ASSUME NEW i \in DOMAIN runs'
          PROVE  /\ runs'[i].id <= held'[runs'[i].node].id
                 /\ runs'[i].label <= baseOf(i)'.id /\ runs'[i].from <= baseOf(i)'.id
                 /\ runs'[i].stage \in {"building", "built"} =>
                       runs'[i].from # 0 /\ runs'[i].label <= runs'[i].from
                 /\ runs'[i].stage = "success" => runs'[i].id # 0
                 /\ runs'[i].stage \in {"accepted", "queued", "resolved"} => runs'[i].from = 0
      <3>1. CASE i \in DOMAIN runs
        BY <1>2, <1>4, <3>1 DEF RunsInv, Numbered, Making
      <3>2. CASE i = k
        <4>1. /\ n \in Refs /\ parent[n] \in Refs
          BY NodeFacts DEF RunsInv, DispatchTypeOK
        <4>2. held[n].id \in Nat /\ held[parent[n]].id \in Nat
          BY <4>1, HeldFacts DEF RunsInv
        <4>3. baseOf(i)' = held[parent[n]] /\ held'[runs'[i].node] = held[n]
          BY <1>3, <3>2 DEF baseOf
        <4>4. QED
          BY <1>3, <3>2, <4>2, <4>3
      <3>3. QED
        BY <1>0, <1>2, <3>1, <3>2
    <2>3. QED
      BY <2>1, <2>2 DEF Numbered, Making
  <1>6. QED
    BY <1>0, <1>2, <1>3, <1>4, <1>5

LEMMA InvDispatch ==
    ASSUME RunsInv, Dispatch
    PROVE  RunsInv'
  <1>1. PICK n \in plan : IsNext(n) /\ runs' = Append(runs, Run(n, TRUE)) /\ plan' = plan \ {n}
    BY DEF Dispatch
  <1>2. /\ pc = "dispatch" /\ pc' = "list"
        /\ UNCHANGED << parent, judge, held, lastId, lastMade, past, watched, events, first, stray,
                        quiet, apart >>
    BY DEF Dispatch, registryVars
  <1>0. PICK k : k = Len(runs) + 1
    OBVIOUS
  <1>3. n \in Nodes /\ n \in Nat /\ plan \subseteq Nat
    BY <1>1, NodeFacts DEF RunsInv, DispatchTypeOK
  <1>4. /\ runs' \in Seq(BuildRuns) /\ Len(runs') = k /\ Len(runs) \in Nat
        /\ DOMAIN runs = 1..Len(runs) /\ DOMAIN runs' = 1..k
        /\ \A i \in DOMAIN runs : i \in DOMAIN runs' /\ runs'[i] = runs[i]
        /\ runs'[k].node = n /\ runs'[k].own = TRUE /\ runs'[k].stage = "accepted"
        /\ runs'[k].from = 0 /\ runs'[k].id = 0
        /\ \A i \in DOMAIN runs : baseOf(i)' = baseOf(i)
        /\ Numbered'
    BY <1>0, <1>1, <1>2, <1>3, Added
  <1>5. first \in Nat /\ first <= k
    BY <1>0, <1>4 DEF RunsInv, DispatchTypeOK
  <1>6. /\ Today' = Today \cup {k} /\ k \notin Today /\ Today \subseteq 1..Len(runs)
        /\ \A i \in Today : runs'[i] = runs[i] /\ i < k
    <2>1. Today' = {i \in 1..k : i >= first /\ runs'[i].own}
      BY <1>2, <1>4 DEF Today
    <2>2. Today = {i \in 1..Len(runs) : i >= first /\ runs[i].own}
      BY <1>4 DEF Today
    <2>3. QED
      BY <1>0, <1>4, <1>5, <2>1, <2>2
  <1>7. DispatchTypeOK'
    <2>1. UNCHANGED << Nodes, Refs, BuildRuns, Rooted >>
      BY <1>2 DEF Nodes, Refs, BuildRuns, Rooted
    <2>2. plan' \subseteq Nodes /\ watched' \in 0..Len(runs') /\ first' \in 1..(Len(runs') + 1)
      BY <1>1, <1>2, <1>4 DEF RunsInv, DispatchTypeOK
    <2>3. QED
      BY <1>2, <1>4, <2>1, <2>2 DEF RunsInv, DispatchTypeOK
  <1>8. DayOrder'
    <2>1. \A i \in Today : runs[i].node < n
      BY <1>1 DEF RunsInv, DayOrder
    <2>2. \A i, j \in Today' : i < j => runs'[i].node < runs'[j].node
      <3> SUFFICES ASSUME NEW i \in Today', NEW j \in Today', i < j
                   PROVE  runs'[i].node < runs'[j].node
        OBVIOUS
      <3>1. i \in Today
        BY <1>4, <1>6
      <3>2. CASE j \in Today
        BY <1>6, <3>1, <3>2 DEF RunsInv, DayOrder
      <3>3. CASE j = k
        BY <1>4, <1>6, <2>1, <3>1, <3>3
      <3>4. QED
        BY <1>6, <3>2, <3>3
    <2>3. \A i \in Today', m \in plan' : runs'[i].node < m
      <3> SUFFICES ASSUME NEW i \in Today', NEW m \in plan' PROVE runs'[i].node < m
        OBVIOUS
      <3>1. m \in plan /\ n < m
        BY <1>1, <1>3 DEF IsNext
      <3>2. CASE i \in Today
        BY <1>6, <3>1, <3>2 DEF RunsInv, DayOrder
      <3>3. CASE i = k
        BY <1>3, <1>4, <3>1, <3>3
      <3>4. QED
        BY <1>6, <3>2, <3>3
    <2>4. QED
      BY <2>2, <2>3 DEF DayOrder
  <1>9. ~stray => \A i \in Today : runs[i].stage = "success" /\ runs'[i].stage = "success"
    BY <1>2, <1>6 DEF RunsInv, Waited
  <1>10. Waited'
    <2>1. ~stray => StopsOnFailure'
      <3> SUFFICES ASSUME ~stray, NEW i \in Today', NEW j \in Today', i < j
                   PROVE  runs'[i].stage = "success"
        BY DEF StopsOnFailure
      <3>1. i \in Today
        BY <1>4, <1>6
      <3>2. QED
        BY <1>9, <3>1
    <2>2. QED
      BY <1>2, <1>6, <2>1 DEF Waited
  <1>11. BaseFirst'
    <2> SUFFICES ASSUME ~stray, NEW i \in Today', NEW j \in Today',
                        runs'[i].node = parent[runs'[j].node], runs'[j].from # 0
                 PROVE  runs'[i].id # 0 /\ runs'[j].from >= runs'[i].id
      BY <1>2 DEF BaseFirst
    <2>1. j \in Today
      BY <1>4, <1>6
    <2>2. CASE i \in Today
      BY <1>6, <2>1, <2>2 DEF RunsInv, BaseFirst
    <2>3. CASE i = k
      <3>1. runs[j].node < n /\ runs'[j].node = runs[j].node
        BY <1>1, <1>6, <2>1 DEF RunsInv, DayOrder
      <3>2. j \in DOMAIN runs
        BY <2>1 DEF Today
      <3>3. runs[j].node \in Nodes
        BY <3>2, RunFacts DEF RunsInv
      <3>4. parent[runs[j].node] < runs[j].node /\ parent[runs[j].node] \in Nat /\ runs[j].node \in Nat
        BY <3>3, NodeFacts DEF RunsInv, DispatchTypeOK
      <3>5. n = parent[runs[j].node]
        BY <1>4, <2>3, <3>1
      <3>6. QED
        BY <1>3, <3>1, <3>4, <3>5
    <2>4. QED
      BY <1>6, <2>2, <2>3
  <1>12. UnderWay'
    <2> SUFFICES ASSUME quiet
                 PROVE  /\ ~stray
                        /\ \A i \in DOMAIN runs' : i < first => runs'[i].stage \in {"success", "failure"}
                        /\ \A i \in DOMAIN runs' : i >= first => runs'[i].own
                        /\ \A i \in Today' : Follows(i)'
                        /\ \A m \in Nodes : (parent[m] # 0 /\ Covered(parent[m])') => Covered(m)'
                        /\ \A m \in Nodes : Stale(held, m) =>
                              \/ m \in plan'
                              \/ \E i \in Today' : runs'[i].node = m /\ runs'[i].stage # "success"
      BY <1>2 DEF UnderWay, Over, Nodes, Stale, Judged, Covered
    <2>1. /\ \A m : Covered(m)' <=> Covered(m)
          /\ \A m : Covered(parent[m])' <=> Covered(parent[m])
      <3>1. \A m : (m \in plan' \/ \E i \in Today' : runs'[i].node = m)
                  <=> (m \in plan \/ \E i \in Today : runs[i].node = m)
        BY <1>1, <1>4, <1>6, ZenonT(60)
      <3>2. QED
        BY <1>2, <3>1 DEF Covered
    <2>2. \A i \in DOMAIN runs' : i \in DOMAIN runs \/ i = k
      BY <1>0, <1>4
    <2>3. /\ \A i \in DOMAIN runs' : i < first => runs'[i].stage \in {"success", "failure"}
          /\ \A i \in DOMAIN runs' : i >= first => runs'[i].own
      BY <1>4, <1>5, <2>2 DEF RunsInv, UnderWay, Over
    <2>4. ASSUME NEW i \in Today' PROVE Follows(i)'
      <3>1. CASE i \in Today
        <4>1. i \in DOMAIN runs /\ runs'[i] = runs[i] /\ baseOf(i)' = baseOf(i)
          BY <1>4, <1>6, <3>1 DEF Today
        <4>2. QED
          BY <1>2, <3>1, <4>1 DEF RunsInv, UnderWay, Follows, Making
      <3>2. CASE i = k
        BY <1>4, <3>2 DEF Follows, Making
      <3>3. QED
        BY <1>6, <3>1, <3>2
    <2>5. \A m \in Nodes : (parent[m] # 0 /\ Covered(parent[m])') => Covered(m)'
      BY <2>1 DEF RunsInv, UnderWay
    <2>6. ASSUME NEW m \in Nodes, Stale(held, m)
          PROVE  \/ m \in plan'
                 \/ \E i \in Today' : runs'[i].node = m /\ runs'[i].stage # "success"
      <3>1. CASE m \in plan
        <4>1. CASE m = n
          BY <1>4, <1>6, <4>1
        <4>2. CASE m # n
          BY <1>1, <3>1, <4>2
        <4>3. QED
          BY <4>1, <4>2
      <3>2. CASE m \notin plan
        BY <1>6, <2>6, <3>2 DEF RunsInv, UnderWay
      <3>3. QED
        BY <3>1, <3>2
    <2>7. ~stray
      BY DEF RunsInv, UnderWay
    <2>8. QED
      BY <2>3, <2>4, <2>5, <2>6, <2>7
  <1>13. QED
    BY <1>4, <1>7, <1>8, <1>10, <1>11, <1>12 DEF RunsInv

(* Others' runs are none of today's.                                         *)
LEMMA InvForeign ==
    ASSUME RunsInv, Foreign
    PROVE  RunsInv'
  <1>1. PICK n \in Nodes : runs' = Append(runs, Run(n, FALSE))
    BY DEF Foreign
  <1>2. /\ quiet' = FALSE /\ events > 0 /\ events' = events - 1
        /\ UNCHANGED << parent, judge, held, lastId, lastMade, past, pc, plan, watched, first, stray,
                        apart >>
    BY DEF Foreign, Event, registryVars, refreshVars
  <1>0. PICK k : k = Len(runs) + 1
    OBVIOUS
  <1>3. /\ runs' \in Seq(BuildRuns) /\ Len(runs') = k /\ Len(runs) \in Nat
        /\ DOMAIN runs = 1..Len(runs) /\ DOMAIN runs' = 1..k
        /\ \A i \in DOMAIN runs : i \in DOMAIN runs' /\ runs'[i] = runs[i]
        /\ runs'[k].own = FALSE /\ Numbered'
    BY <1>0, <1>1, <1>2, Added
  <1>4. Today' = Today /\ \A i \in Today : runs'[i] = runs[i]
    BY <1>0, <1>2, <1>3 DEF Today
  <1>5. DispatchTypeOK'
    <2>1. UNCHANGED << Nodes, Refs, BuildRuns, Rooted >>
      BY <1>2 DEF Nodes, Refs, BuildRuns, Rooted
    <2>2. watched' \in 0..Len(runs') /\ first' \in 1..(Len(runs') + 1)
      <3>1. watched \in 0..Len(runs) /\ first \in 1..(Len(runs) + 1)
        BY DEF RunsInv, DispatchTypeOK
      <3>2. QED
        BY <1>0, <1>2, <1>3, <3>1
    <2>3. events' \in Nat
      BY <1>2 DEF RunsInv, DispatchTypeOK
    <2>4. QED
      BY <1>2, <1>3, <2>1, <2>2, <2>3 DEF RunsInv, DispatchTypeOK
  <1>6. DayOrder' /\ Waited' /\ BaseFirst'
    BY <1>2, <1>4 DEF RunsInv, DayOrder, Waited, StopsOnFailure, BaseFirst
  <1>7. UnderWay'
    BY <1>2 DEF UnderWay
  <1>8. QED
    BY <1>3, <1>5, <1>6, <1>7 DEF RunsInv
-----------------------------------------------------------------------------
(* A run goes on.                                                            *)
LEMMA Replaced ==
    ASSUME RunsInv, NEW i \in DOMAIN runs, NEW r \in BuildRuns, Becomes(i, r),
           r.node = runs[i].node, r.own = runs[i].own
    PROVE  /\ UNCHANGED << parent, judge, pc, plan, watched, events, first, stray >>
           /\ runs' \in Seq(BuildRuns) /\ Len(runs') = Len(runs) /\ DOMAIN runs' = DOMAIN runs
           /\ runs'[i] = r /\ \A j \in DOMAIN runs : j # i => runs'[j] = runs[j]
           /\ \A j \in DOMAIN runs : runs'[j].node = runs[j].node /\ runs'[j].own = runs[j].own
           /\ Today' = Today /\ Today \subseteq DOMAIN runs
           /\ \A m : Covered(m)' <=> Covered(m)
           /\ \A m : Covered(parent[m])' <=> Covered(parent[m])
  <1>1. runs \in Seq(BuildRuns)
    BY DEF RunsInv, DispatchTypeOK
  <1>2. UNCHANGED << parent, judge, pc, plan, watched, events, first, stray >>
    BY DEF Becomes, refreshVars
  <1>3. runs' = [runs EXCEPT ![i] = r]
    BY DEF Becomes
  <1>4. /\ runs' \in Seq(BuildRuns) /\ Len(runs') = Len(runs) /\ DOMAIN runs' = DOMAIN runs
        /\ runs'[i] = r /\ \A j \in DOMAIN runs : j # i => runs'[j] = runs[j]
    BY <1>1, <1>3
  <1>5. \A j \in DOMAIN runs : runs'[j].node = runs[j].node /\ runs'[j].own = runs[j].own
    BY <1>4
  <1>6. Today' = Today /\ Today \subseteq DOMAIN runs
    BY <1>2, <1>4, <1>5 DEF Today
  <1>7. (\A m : Covered(m)' <=> Covered(m)) /\ \A m : Covered(parent[m])' <=> Covered(parent[m])
    <2>1. \A m : (\E j \in Today' : runs'[j].node = m) <=> (\E j \in Today : runs[j].node = m)
      BY <1>5, <1>6
    <2>2. QED
      BY <1>2, <2>1 DEF Covered
  <1>8. QED
    BY <1>2, <1>4, <1>5, <1>6, <1>7

(* While the day goes by the book, a run of today that is not over is the    *)
(* last one.                                                                 *)
LEMMA ActiveIsLast ==
    ASSUME RunsInv, ~stray, NEW i \in Today, runs[i].stage # "success", NEW j \in Today, j # i
    PROVE  j < i /\ runs[j].stage = "success" /\ runs[j].node < runs[i].node
  <1>1. i \in Nat /\ j \in Nat
    BY DEF RunsInv, DispatchTypeOK, Today
  <1>2. ~(i < j)
    BY DEF RunsInv, Waited, StopsOnFailure
  <1>3. j < i
    BY <1>1, <1>2
  <1>4. QED
    BY <1>3 DEF RunsInv, Waited, StopsOnFailure, DayOrder

(* A run that reads, builds or fails, and pushes nothing.                    *)
LEMMA InvJob ==
    ASSUME RunsInv, NEW i \in DOMAIN runs, NEW r \in BuildRuns, Becomes(i, r),
           UNCHANGED << held, lastId, past >>, lastMade' \in Nat,
           quiet' \in BOOLEAN, quiet' => quiet, apart' \in BOOLEAN,
           runs[i].stage \notin {"success", "failure"}, r.stage # "success",
           r.node = runs[i].node, r.own = runs[i].own, r.id = runs[i].id,
           r.label <= baseOf(i).id, r.from \in {runs[i].from, baseOf(i).id},
           r.stage \in {"building", "built"} => r.from # 0 /\ r.label <= r.from,
           r.stage \in {"accepted", "queued", "resolved"} => r.from = 0,
           (quiet' /\ judge[r.node] = "digest" /\ r.stage \in {"resolved", "building", "built"}) =>
              r.label = baseOf(i).id,
           (quiet' /\ r.stage = "built") => baseOf(i).created < r.created
    PROVE  RunsInv'
  <1>1. /\ UNCHANGED << parent, judge, held, lastId, past, pc, plan, watched, events, first, stray >>
        /\ runs' \in Seq(BuildRuns) /\ Len(runs') = Len(runs) /\ DOMAIN runs' = DOMAIN runs
        /\ runs'[i] = r /\ \A j \in DOMAIN runs : j # i => runs'[j] = runs[j]
        /\ \A j \in DOMAIN runs : runs'[j].node = runs[j].node /\ runs'[j].own = runs[j].own
        /\ Today' = Today /\ Today \subseteq DOMAIN runs
    BY Replaced
  <1>2. UNCHANGED << Nodes, Refs, BuildRuns, Rooted >> /\ \A j \in DOMAIN runs : baseOf(j)' = baseOf(j)
    BY <1>1 DEF Nodes, Refs, BuildRuns, Rooted, baseOf
  <1>3. DispatchTypeOK'
    BY <1>1, <1>2 DEF RunsInv, DispatchTypeOK
  <1>4. \A j \in DOMAIN runs : runs[j].from <= baseOf(j).id /\ baseOf(j).id \in Nat
    BY RunFacts DEF RunsInv, Numbered
  <1>5. Numbered'
    <2>1. ASSUME NEW j \in DOMAIN runs
          PROVE  /\ runs'[j].id <= held[runs'[j].node].id
                 /\ runs'[j].label <= baseOf(j).id /\ runs'[j].from <= baseOf(j).id
                 /\ runs'[j].stage \in {"building", "built"} =>
                       runs'[j].from # 0 /\ runs'[j].label <= runs'[j].from
                 /\ runs'[j].stage = "success" => runs'[j].id # 0
                 /\ runs'[j].stage \in {"accepted", "queued", "resolved"} => runs'[j].from = 0
      <3>1. CASE j = i
        BY <1>1, <1>4, <3>1 DEF RunsInv, Numbered
      <3>2. CASE j # i
        BY <1>1, <3>2 DEF RunsInv, Numbered, Making
      <3>3. QED
        BY <3>1, <3>2
    <2>2. QED
      BY <1>1, <1>2, <2>1 DEF RunsInv, Numbered, Making
  <1>6. DayOrder'
    BY <1>1 DEF RunsInv, DayOrder
  <1>7. \A j \in Today : runs[j].stage = "success" => j # i /\ runs'[j].stage = "success"
    BY <1>1
  <1>8. Waited'
    <2>1. ~stray => StopsOnFailure'
      BY <1>1, <1>7 DEF RunsInv, Waited, StopsOnFailure
    <2>2. QED
      BY <1>1, <1>7, <2>1 DEF RunsInv, Waited
  <1>9. BaseFirst'
    <2> SUFFICES ASSUME ~stray, NEW a \in Today, NEW b \in Today,
                        runs'[a].node = parent[runs'[b].node], runs'[b].from # 0
                 PROVE  runs'[a].id # 0 /\ runs'[b].from >= runs'[a].id
      BY <1>1 DEF BaseFirst
    <2>1. /\ a \in DOMAIN runs /\ b \in DOMAIN runs /\ runs'[a].id = runs[a].id
          /\ runs[a].node = parent[runs[b].node] /\ baseOf(b) = held[runs[a].node]
      BY <1>1 DEF baseOf
    <2>2. CASE runs[b].from # 0 /\ runs'[b].from = runs[b].from
      BY <2>1, <2>2 DEF RunsInv, BaseFirst
    <2>3. CASE runs[b].from = 0 \/ runs'[b].from # runs[b].from
      <3>1. b = i /\ r.from = baseOf(i).id
        BY <1>1, <2>3
      <3>2. runs[a].node < runs[b].node /\ runs[b].node \in Nat
        BY <2>1, RunFacts, NodeFacts DEF RunsInv, DispatchTypeOK
      <3>3. a # b
        BY <3>2
      <3>4. runs[a].stage = "success"
        BY <3>1, <3>3, ActiveIsLast
      <3>5. runs[a].id # 0 /\ runs[a].id <= held[runs[a].node].id
        BY <2>1, <3>4 DEF RunsInv, Numbered
      <3>6. runs[a].id \in Nat /\ held[runs[a].node].id \in Nat
        BY <2>1, RunFacts DEF RunsInv
      <3>7. QED
        BY <1>1, <2>1, <3>1, <3>5, <3>6
    <2>4. QED
      BY <2>2, <2>3
  <1>10. UnderWay'
    <2> SUFFICES ASSUME quiet', quiet
                 PROVE  /\ ~stray
                        /\ \A j \in DOMAIN runs : j < first => runs'[j].stage \in {"success", "failure"}
                        /\ \A j \in DOMAIN runs : j >= first => runs[j].own
                        /\ \A j \in Today : Follows(j)'
                        /\ \A m \in Nodes : (parent[m] # 0 /\ Covered(parent[m])) => Covered(m)
                        /\ \A m \in Nodes : Stale(held, m) =>
                              \/ m \in plan
                              \/ \E j \in Today : runs[j].node = m /\ runs'[j].stage # "success"
      <3>1. \A m : (Covered(m)' <=> Covered(m)) /\ (Covered(parent[m])' <=> Covered(parent[m]))
        BY Replaced
      <3>2. \A m : Stale(held, m)' = Stale(held, m)
        BY <1>1 DEF Stale, Judged
      <3>3. QED
        BY <1>1, <1>2, <3>1, <3>2 DEF UnderWay, Over
    <2>1. ~stray /\ \A j \in DOMAIN runs : j < first => j # i
      BY DEF RunsInv, UnderWay, Over
    <2>2. \A j \in DOMAIN runs : j < first => runs'[j].stage \in {"success", "failure"}
      BY <1>1, <2>1 DEF RunsInv, UnderWay, Over
    <2>3. ASSUME NEW j \in Today PROVE Follows(j)'
      <3>1. CASE j = i
        BY <1>1, <1>2, <3>1 DEF Follows, Making
      <3>2. CASE j # i
        <4>1. runs'[j] = runs[j] /\ baseOf(j)' = baseOf(j)
          BY <1>1, <1>2, <3>2
        <4>2. QED
          BY <1>1, <4>1 DEF RunsInv, UnderWay, Follows, Making
      <3>3. QED
        BY <3>1, <3>2
    <2>4. \A j \in Today : runs[j].stage # "success" => runs'[j].stage # "success"
      BY <1>1
    <2>5. QED
      BY <2>1, <2>2, <2>3, <2>4 DEF RunsInv, UnderWay
  <1>11. QED
    BY <1>3, <1>5, <1>6, <1>8, <1>9, <1>10 DEF RunsInv

(* A run of a quiet day that is not over is one of today's.                   *)
LEMMA ActiveIsToday ==
    ASSUME RunsInv, quiet, NEW i \in DOMAIN runs, ~Over(i)
    PROVE  i \in Today /\ Follows(i)
  <1>1. ~(i < first) /\ i \in Nat /\ first \in Nat
    BY DEF RunsInv, UnderWay, DispatchTypeOK
  <1>2. i >= first
    BY <1>1
  <1>3. QED
    BY <1>2 DEF RunsInv, UnderWay, Today

LEMMA InvRun ==
    ASSUME RunsInv, NEW i \in DOMAIN runs, \A n \in Refs : held[n].created <= lastMade,
           Register(i) \/ Resolve(i) \/ Docker(i) \/ Make(i) \/ JobFails(i)
    PROVE  RunsInv'
  <1> DEFINE old == runs[i]
  <1>1. /\ old \in BuildRuns /\ old.label \in Nat /\ old.from \in Nat /\ baseOf(i).id \in Nat
        /\ quiet \in BOOLEAN /\ apart \in BOOLEAN /\ lastMade \in Nat
        /\ old.label <= baseOf(i).id /\ old.from <= baseOf(i).id
        /\ old.stage \in {"accepted", "queued", "resolved"} => old.from = 0
        /\ old.stage \in {"building", "built"} => old.from # 0 /\ old.label <= old.from
    BY RunFacts DEF RunsInv, Numbered, DispatchTypeOK, Making
  <1>2. CASE Register(i)
    <2> DEFINE r == [old EXCEPT !.stage = "queued"]
    <2>1. /\ old.stage = "accepted" /\ Becomes(i, r) /\ UNCHANGED << registryVars, apart >>
          /\ quiet' = quiet
      BY <1>2 DEF Register
    <2>2. /\ r \in BuildRuns /\ r.node = old.node /\ r.own = old.own /\ r.id = old.id
          /\ r.stage = "queued" /\ r.label = old.label /\ r.from = old.from
      BY <1>1 DEF BuildRuns, Stages
    <2> HIDE DEF r
    <2>3. QED
      BY <1>1, <2>1, <2>2, InvJob DEF registryVars
  <1>3. CASE Resolve(i)
    <2>1. PICK l \in {baseOf(i).id, 0} :
             /\ Becomes(i, [old EXCEPT !.stage = "resolved", !.label = l])
             /\ quiet' = (quiet /\ (l # 0 \/ judge[old.node] = "created"))
      BY <1>3 DEF Resolve
    <2> DEFINE r == [old EXCEPT !.stage = "resolved", !.label = l]
    <2>2. old.stage = "queued" /\ Becomes(i, r) /\ UNCHANGED << registryVars, apart >>
      BY <1>3, <2>1 DEF Resolve
    <2>3. l \in Nat
      BY <1>1, <2>1
    <2>4. /\ r \in BuildRuns /\ r.node = old.node /\ r.own = old.own /\ r.id = old.id
          /\ r.stage = "resolved" /\ r.label = l /\ r.from = old.from
      BY <1>1, <2>3 DEF BuildRuns, Stages
    <2>5. /\ quiet' \in BOOLEAN /\ (quiet' => quiet)
          /\ quiet' /\ judge[r.node] = "digest" => l = baseOf(i).id
      BY <2>1, <2>4
    <2>6. l <= baseOf(i).id
      BY <1>1, <2>1
    <2> HIDE DEF r
    <2>7. QED
      BY <1>1, <2>2, <2>4, <2>5, <2>6, InvJob DEF registryVars
  <1>4. CASE Docker(i)
    <2> DEFINE r == [old EXCEPT !.stage = "building", !.from = baseOf(i).id]
    <2>1. /\ old.stage = "resolved" /\ Becomes(i, r) /\ UNCHANGED registryVars /\ quiet' = quiet
          /\ baseOf(i).id # 0 /\ apart' \in BOOLEAN
      BY <1>1, <1>4 DEF Docker
    <2>2. /\ r \in BuildRuns /\ r.node = old.node /\ r.own = old.own /\ r.id = old.id
          /\ r.stage = "building" /\ r.label = old.label /\ r.from = baseOf(i).id
      BY <1>1 DEF BuildRuns, Stages
    <2>3. (quiet /\ judge[old.node] = "digest") => old.label = baseOf(i).id
      BY <2>1, ActiveIsToday DEF Over, Follows
    <2> HIDE DEF r
    <2>4. QED
      BY <1>1, <2>1, <2>2, <2>3, InvJob DEF registryVars
  <1>5. CASE Make(i)
    <2> DEFINE r == [old EXCEPT !.stage = "built", !.created = lastMade + 1]
    <2>1. /\ old.stage = "building" /\ Becomes(i, r) /\ UNCHANGED << held, lastId, past, apart >>
          /\ quiet' = quiet /\ lastMade' = lastMade + 1
      BY <1>5 DEF Make
    <2>2. /\ r \in BuildRuns /\ r.node = old.node /\ r.own = old.own /\ r.id = old.id
          /\ r.stage = "built" /\ r.label = old.label /\ r.from = old.from
          /\ r.created = lastMade + 1
      <3>1. lastMade + 1 \in Nat
        BY DEF RunsInv, DispatchTypeOK
      <3>2. QED
        BY <1>1, <3>1 DEF BuildRuns, Stages
    <2>3. (quiet /\ judge[old.node] = "digest") => old.label = baseOf(i).id
      BY <2>1, ActiveIsToday DEF Over, Follows, Making
    <2>4. baseOf(i).created < lastMade + 1
      <3>1. baseOf(i).created <= lastMade /\ baseOf(i).created \in Nat
        BY RunFacts, HeldFacts DEF RunsInv, baseOf
      <3>2. QED
        BY <1>1, <3>1
    <2> HIDE DEF r
    <2>5. QED
      BY <1>1, <2>1, <2>2, <2>3, <2>4, InvJob
  <1>6. CASE JobFails(i)
    <2> DEFINE r == [old EXCEPT !.stage = "failure"]
    <2>1. /\ old.stage \in {"queued", "resolved", "building", "built"} /\ Becomes(i, r)
          /\ UNCHANGED << registryVars, apart >> /\ quiet' = quiet
      BY <1>6 DEF JobFails
    <2>2. /\ r \in BuildRuns /\ r.node = old.node /\ r.own = old.own /\ r.id = old.id
          /\ r.stage = "failure" /\ r.label = old.label /\ r.from = old.from
      BY <1>1 DEF BuildRuns, Stages
    <2> HIDE DEF r
    <2>3. QED
      BY <1>1, <2>1, <2>2, InvJob DEF registryVars
  <1>7. QED
    BY <1>2, <1>3, <1>4, <1>5, <1>6

(* A tag moves to a new image.                                               *)
LEMMA Moved ==
    ASSUME RunsInv, parent' = parent, NEW n \in Refs, NEW image \in Image, Hold(n, image),
           image.id = lastId + 1, image.label <= image.from, image.from <= lastId,
           n # 0 => image.from <= held[parent[n]].id
    PROVE  /\ held' \in [Refs -> Image] /\ past' \in [Refs -> SUBSET Image] /\ lastId' \in Nat
           /\ held'[n] = image /\ \A m \in Refs : m # n => held'[m] = held[m]
           /\ \A m \in Refs : held[m].id <= held'[m].id
           /\ lastId' = lastId + 1
           /\ held'[0].id # 0
           /\ \A m \in Refs : held'[m].id <= lastId' /\ held'[m].from <= lastId'
           /\ \A m \in Nodes : /\ held'[m].label <= held'[m].from
                               /\ held'[parent[m]].id # 0 => held'[m].from <= held'[parent[m]].id
  <1>1. /\ held' = [held EXCEPT ![n] = image] /\ past' = [past EXCEPT ![n] = @ \cup {image}]
        /\ lastId' = lastId + 1
    BY DEF Hold
  <1>2. held \in [Refs -> Image] /\ past \in [Refs -> SUBSET Image] /\ lastId \in Nat
    BY DEF RunsInv, DispatchTypeOK
  <1>3. /\ held' \in [Refs -> Image] /\ past' \in [Refs -> SUBSET Image] /\ lastId' \in Nat
        /\ held'[n] = image /\ \A m \in Refs : m # n => held'[m] = held[m]
    BY <1>1, <1>2
  <1>4. \A m \in Refs : /\ held[m].id \in Nat /\ held[m].from \in Nat
                        /\ held[m].id <= lastId /\ held[m].from <= lastId
    BY HeldFacts DEF RunsInv, Numbered
  <1>5. \A m \in Refs : held[m].id <= held'[m].id
    <2> SUFFICES ASSUME NEW m \in Refs PROVE held[m].id <= held'[m].id
      OBVIOUS
    <2>1. CASE m = n
      BY <1>2, <1>3, <1>4, <2>1
    <2>2. CASE m # n
      BY <1>3, <1>4, <2>2
    <2>3. QED
      BY <2>1, <2>2
  <1>6. image.from \in Nat /\ image.label \in Nat /\ image.id # 0
    BY <1>2 DEF Image
  <1>7. held'[0].id # 0
    <2>1. 0 \in Refs /\ held[0].id # 0
      BY DEF Refs, RunsInv, Numbered
    <2>2. QED
      BY <1>3, <1>6, <2>1
  <1>8. \A m \in Refs : held'[m].id <= lastId' /\ held'[m].from <= lastId'
    <2> SUFFICES ASSUME NEW m \in Refs PROVE held'[m].id <= lastId' /\ held'[m].from <= lastId'
      OBVIOUS
    <2>1. CASE m = n
      BY <1>1, <1>2, <1>3, <1>6, <2>1
    <2>2. CASE m # n
      BY <1>1, <1>2, <1>3, <1>4, <2>2
    <2>3. QED
      BY <2>1, <2>2
  <1>9. ASSUME NEW m \in Nodes
        PROVE  /\ held'[m].label <= held'[m].from
               /\ held'[parent[m]].id # 0 => held'[m].from <= held'[parent[m]].id
    <2>1. m \in Refs /\ parent[m] \in Refs /\ parent[m] # m /\ m # 0
      BY NodeFacts DEF RunsInv, DispatchTypeOK
    <2>2. /\ held[m].label <= held[m].from
          /\ held[parent[m]].id # 0 => held[m].from <= held[parent[m]].id
      BY DEF RunsInv, Numbered
    <2>3. CASE m = n
      BY <1>3, <2>1, <2>3
    <2>4. CASE m # n /\ parent[m] = n
      BY <1>2, <1>3, <1>4, <2>1, <2>2, <2>4
    <2>5. CASE m # n /\ parent[m] # n
      BY <1>3, <2>1, <2>2, <2>5
    <2>6. QED
      BY <2>3, <2>4, <2>5
  <1>10. QED
    BY <1>1, <1>3, <1>5, <1>7, <1>8, <1>9

LEMMA InvUpstream ==
    ASSUME RunsInv, UpstreamMoves
    PROVE  RunsInv'
  <1>0. PICK age \in Ages :
          /\ age <= lastMade + 1
          /\ Hold(0, Plain(lastId + 1, lastMade + 1 - age))
          /\ lastMade' = IF age = 0 THEN lastMade + 1 ELSE lastMade
          /\ apart' \in BOOLEAN
    BY DEF UpstreamMoves
  <1> DEFINE image == Plain(lastId + 1, lastMade + 1 - age)
  <1>1. /\ UNCHANGED << parent, judge, runs, pc, plan, watched, first, stray >>
        /\ events > 0 /\ events' = events - 1 /\ quiet' = FALSE /\ Hold(0, image)
    BY <1>0 DEF UpstreamMoves, Event, refreshVars
  <1>10. lastMade' \in Nat /\ lastMade + 1 - age \in Nat
    BY <1>0, DispatchAssumption DEF RunsInv, DispatchTypeOK
  <1>2. /\ image \in Image /\ image.id = lastId + 1 /\ image.label = 0 /\ image.from = 0
        /\ lastId \in Nat /\ 0 \in Refs
    <2>1. lastId \in Nat /\ 0 \in Refs
      BY DEF RunsInv, DispatchTypeOK, Refs
    <2>2. QED
      BY <1>10, <2>1 DEF Plain, Image
  <1> HIDE DEF image
  <1>3. /\ held' \in [Refs -> Image] /\ past' \in [Refs -> SUBSET Image] /\ lastId' \in Nat
        /\ \A m \in Refs : held[m].id <= held'[m].id
        /\ held'[0].id # 0
        /\ \A m \in Refs : held'[m].id <= lastId' /\ held'[m].from <= lastId'
        /\ \A m \in Nodes : /\ held'[m].label <= held'[m].from
                            /\ held'[parent[m]].id # 0 => held'[m].from <= held'[parent[m]].id
    BY <1>1, <1>2, Moved
  <1>4. UNCHANGED << Nodes, Refs, BuildRuns, Today, Rooted >>
    BY <1>1 DEF Nodes, Refs, BuildRuns, Today, Rooted
  <1>5. DispatchTypeOK'
    <2>1. events' \in Nat
      BY <1>1 DEF RunsInv, DispatchTypeOK
    <2>2. QED
      BY <1>0, <1>1, <1>3, <1>4, <1>10, <2>1 DEF RunsInv, DispatchTypeOK
  <1>6. Numbered'
    <2>1. ASSUME NEW i \in DOMAIN runs
          PROVE  /\ runs[i].id <= held'[runs[i].node].id
                 /\ runs[i].label <= baseOf(i)'.id /\ runs[i].from <= baseOf(i)'.id
      <3>1. /\ runs[i].node \in Refs /\ parent[runs[i].node] \in Refs
            /\ runs[i].id \in Nat /\ runs[i].label \in Nat /\ runs[i].from \in Nat
        BY RunFacts, NodeFacts DEF RunsInv, DispatchTypeOK
      <3>2. \A m \in Refs : held[m].id \in Nat /\ held'[m].id \in Nat
        BY <1>3, HeldFacts DEF RunsInv, Image
      <3>3. baseOf(i)' = held'[parent[runs[i].node]] /\ baseOf(i) = held[parent[runs[i].node]]
        BY <1>1 DEF baseOf
      <3>4. /\ runs[i].id <= held[runs[i].node].id
            /\ runs[i].label <= baseOf(i).id /\ runs[i].from <= baseOf(i).id
        BY DEF RunsInv, Numbered
      <3>5. QED
        BY <1>3, <3>1, <3>2, <3>3, <3>4
    <2>2. QED
      BY <1>1, <1>3, <1>4, <2>1 DEF RunsInv, Numbered, Making
  <1>7. DayOrder' /\ Waited' /\ BaseFirst'
    BY <1>1, <1>4 DEF RunsInv, DayOrder, Waited, StopsOnFailure, BaseFirst
  <1>8. UnderWay'
    BY <1>1 DEF UnderWay
  <1>9. QED
    BY <1>5, <1>6, <1>7, <1>8 DEF RunsInv

(* A run pushes: today's runs for the dependents come later, or are planned.  *)
LEMMA InvPush ==
    ASSUME RunsInv, NEW i \in DOMAIN runs, Push(i)
    PROVE  RunsInv'
  <1> DEFINE old == runs[i]
             n == runs[i].node
             image == [id |-> lastId + 1, created |-> runs[i].created,
                       label |-> runs[i].label, from |-> runs[i].from]
  <1>1. PICK stage \in {"success", "failure"} :
           Becomes(i, [runs[i] EXCEPT !.stage = stage, !.id = lastId + 1])
    BY DEF Push
  <1>2. PICK r : r = [runs[i] EXCEPT !.stage = stage, !.id = lastId + 1]
    OBVIOUS
  <1>3. /\ old.stage = "built" /\ quiet' = quiet /\ apart' = apart /\ lastMade' = lastMade
        /\ Hold(n, image) /\ Becomes(i, r)
    BY <1>1, <1>2 DEF Push, Labelled
  <1>4. /\ old \in BuildRuns /\ old.label \in Nat /\ old.from \in Nat /\ baseOf(i).id \in Nat
        /\ old.label <= baseOf(i).id /\ old.from <= baseOf(i).id /\ old.label <= old.from
        /\ old.from # 0 /\ old.created \in Nat /\ i \in Nat /\ n \in Nodes
    BY <1>3, RunFacts DEF RunsInv, Numbered, Making
  <1>5. /\ n \in Refs /\ n \in Nat /\ n # 0 /\ parent[n] \in Refs /\ parent[n] < n
        /\ baseOf(i) = held[parent[n]] /\ lastId \in Nat /\ quiet \in BOOLEAN
        /\ held[parent[n]].id <= lastId
    BY <1>4, NodeFacts DEF RunsInv, DispatchTypeOK, Numbered, baseOf
  <1>6. /\ r \in BuildRuns /\ r.node = n /\ r.own = old.own /\ r.id = lastId + 1
        /\ r.stage = stage /\ r.label = old.label /\ r.from = old.from
    <2>1. lastId + 1 \in Nat /\ stage \in {"success", "failure"} /\ old \in BuildRuns
      BY <1>4, <1>5
    <2>2. QED
      BY <1>2, <2>1 DEF BuildRuns, Stages
  <1>7. /\ UNCHANGED << parent, judge, pc, plan, watched, events, first, stray >>
        /\ runs' \in Seq(BuildRuns) /\ Len(runs') = Len(runs) /\ DOMAIN runs' = DOMAIN runs
        /\ runs'[i] = r /\ \A j \in DOMAIN runs : j # i => runs'[j] = runs[j]
        /\ \A j \in DOMAIN runs : runs'[j].node = runs[j].node /\ runs'[j].own = runs[j].own
        /\ Today' = Today /\ Today \subseteq DOMAIN runs
        /\ \A m : Covered(m)' <=> Covered(m)
        /\ \A m : Covered(parent[m])' <=> Covered(parent[m])
    BY <1>3, <1>6, Replaced
  <1>8. /\ image \in Image /\ image.id = lastId + 1 /\ image.created = old.created
        /\ image.label = old.label /\ image.from = old.from
    BY <1>4, <1>5 DEF Image
  <1> HIDE DEF image
  <1>9. old.from <= lastId
    BY <1>4, <1>5
  <1>10. /\ held' \in [Refs -> Image] /\ past' \in [Refs -> SUBSET Image] /\ lastId' \in Nat
         /\ held'[n] = image /\ \A m \in Refs : m # n => held'[m] = held[m]
         /\ \A m \in Refs : held[m].id <= held'[m].id
         /\ held'[0].id # 0
         /\ \A m \in Refs : held'[m].id <= lastId' /\ held'[m].from <= lastId'
         /\ \A m \in Nodes : /\ held'[m].label <= held'[m].from
                             /\ held'[parent[m]].id # 0 => held'[m].from <= held'[parent[m]].id
    BY <1>3, <1>4, <1>5, <1>7, <1>8, <1>9, Moved
  <1>11. UNCHANGED << Nodes, Refs, BuildRuns, Rooted >>
    BY <1>7 DEF Nodes, Refs, BuildRuns, Rooted
  <1>12. DispatchTypeOK'
    BY <1>3, <1>7, <1>10, <1>11 DEF RunsInv, DispatchTypeOK
  <1>13. Numbered'
    <2>1. ASSUME NEW j \in DOMAIN runs
          PROVE  /\ runs'[j].id <= held'[runs'[j].node].id
                 /\ runs'[j].label <= baseOf(j)'.id /\ runs'[j].from <= baseOf(j)'.id
                 /\ runs'[j].stage \in {"building", "built"} =>
                       runs'[j].from # 0 /\ runs'[j].label <= runs'[j].from
                 /\ runs'[j].stage = "success" => runs'[j].id # 0
                 /\ runs'[j].stage \in {"accepted", "queued", "resolved"} => runs'[j].from = 0
      <3>1. /\ runs[j].node \in Refs /\ parent[runs[j].node] \in Refs
            /\ runs[j].id \in Nat /\ runs[j].label \in Nat /\ runs[j].from \in Nat
        BY RunFacts, NodeFacts DEF RunsInv, DispatchTypeOK
      <3>2. \A m \in Refs : held[m].id \in Nat /\ held'[m].id \in Nat
        BY <1>10, HeldFacts DEF RunsInv, Image
      <3>3. baseOf(j)' = held'[parent[runs[j].node]] /\ baseOf(j) = held[parent[runs[j].node]]
        BY <1>7 DEF baseOf
      <3>4. /\ runs[j].id <= held[runs[j].node].id
            /\ runs[j].label <= baseOf(j).id /\ runs[j].from <= baseOf(j).id
            /\ runs[j].stage \in {"building", "built"} =>
                  runs[j].from # 0 /\ runs[j].label <= runs[j].from
            /\ runs[j].stage = "success" => runs[j].id # 0
            /\ runs[j].stage \in {"accepted", "queued", "resolved"} => runs[j].from = 0
        BY DEF RunsInv, Numbered, Making
      <3>5. /\ held[runs[j].node].id <= held'[runs[j].node].id
            /\ baseOf(j).id <= baseOf(j)'.id /\ baseOf(j).id \in Nat /\ baseOf(j)'.id \in Nat
        BY <1>10, <3>1, <3>2, <3>3
      <3>6. runs[j].label <= baseOf(j)'.id /\ runs[j].from <= baseOf(j)'.id
        BY <3>1, <3>4, <3>5
      <3>7. CASE j = i
        BY <1>5, <1>6, <1>7, <1>8, <1>10, <3>6, <3>7
      <3>8. CASE j # i
        <4>1. runs'[j] = runs[j]
          BY <1>7, <3>8
        <4>2. runs[j].id <= held'[runs[j].node].id
          BY <3>1, <3>2, <3>4, <3>5
        <4>3. QED
          BY <3>4, <3>6, <4>1, <4>2
      <3>9. QED
        BY <3>7, <3>8
    <2>2. QED
      BY <1>7, <1>10, <1>11, <2>1 DEF Numbered, Making
  <1>14. DayOrder'
    BY <1>7 DEF RunsInv, DayOrder
  <1>15. \A j \in Today : runs[j].stage = "success" => j # i /\ runs'[j].stage = "success"
    BY <1>3, <1>7
  <1>16. Waited'
    <2>1. ~stray => StopsOnFailure'
      BY <1>7, <1>15 DEF RunsInv, Waited, StopsOnFailure
    <2>2. QED
      BY <1>7, <1>15, <2>1 DEF RunsInv, Waited
  <1>17. BaseFirst'
    <2> SUFFICES ASSUME ~stray, NEW a \in Today, NEW b \in Today,
                        runs'[a].node = parent[runs'[b].node], runs'[b].from # 0
                 PROVE  runs'[a].id # 0 /\ runs'[b].from >= runs'[a].id
      BY <1>7 DEF BaseFirst
    <2>1. /\ a \in DOMAIN runs /\ b \in DOMAIN runs /\ runs'[b].from = runs[b].from
          /\ runs[a].node = parent[runs[b].node]
      BY <1>6, <1>7
    <2>2. runs[a].node < runs[b].node /\ runs[a].node \in Nat /\ runs[b].node \in Nat
      BY <2>1, RunFacts, NodeFacts DEF RunsInv, DispatchTypeOK
    <2>3. a # i
      <3> SUFFICES ASSUME a = i PROVE FALSE
        OBVIOUS
      <3>1. b # i /\ runs[i].stage # "success"
        BY <1>3, <2>2
      <3>2. runs[b].node < runs[a].node
        BY <3>1, ActiveIsLast
      <3>3. QED
        BY <2>2, <3>2
    <2>4. runs'[a].id = runs[a].id
      BY <1>7, <2>1, <2>3
    <2>5. QED
      BY <2>1, <2>4 DEF RunsInv, BaseFirst
  <1>18. UnderWay'
    <2> SUFFICES ASSUME quiet
                 PROVE  /\ ~stray
                        /\ \A j \in DOMAIN runs : j < first => runs'[j].stage \in {"success", "failure"}
                        /\ \A j \in DOMAIN runs : j >= first => runs[j].own
                        /\ \A j \in Today : Follows(j)'
                        /\ \A m \in Nodes : (parent[m] # 0 /\ Covered(parent[m])) => Covered(m)
                        /\ \A m \in Nodes : Stale(held', m) =>
                              \/ m \in plan
                              \/ \E j \in Today : runs[j].node = m /\ runs'[j].stage # "success"
      <3>1. \A m : Stale(held, m)' = Stale(held', m)
        BY <1>7 DEF Stale, Judged
      <3>2. QED
        BY <1>3, <1>7, <1>11, <3>1 DEF UnderWay, Over
    <2>1. ~stray /\ \A j \in DOMAIN runs : j < first => j # i
      BY <1>3 DEF RunsInv, UnderWay, Over
    <2>2. \A j \in DOMAIN runs : j < first => runs'[j].stage \in {"success", "failure"}
      BY <1>7, <2>1 DEF RunsInv, UnderWay, Over
    <2>3. i \in Today
      <3>1. ~(i < first) /\ first \in Nat
        BY <2>1 DEF RunsInv, DispatchTypeOK
      <3>2. i >= first
        BY <1>4, <3>1
      <3>3. QED
        BY <3>2 DEF RunsInv, UnderWay, Today
    <2>4. \A j \in Today : j # i => runs[j].stage = "success" /\ runs[j].node < n
      BY <1>3, <2>1, <2>3, ActiveIsLast
    <2>5. \A j \in Today : Follows(j)'
      BY <1>6, <1>7, <2>4 DEF Follows, Making
    <2>6. /\ judge[n] = "digest" => old.label = held[parent[n]].id
          /\ held[parent[n]].created < old.created
      BY <1>3, <1>5, <2>3 DEF RunsInv, UnderWay, Follows, Making
    <2>7. ASSUME NEW m \in Nodes, Stale(held', m)
          PROVE  \/ m \in plan
                 \/ \E j \in Today : runs[j].node = m /\ runs'[j].stage # "success"
      <3>1. m \in Refs /\ m \in Nat /\ parent[m] \in Refs /\ parent[m] < m
        BY NodeFacts DEF RunsInv, DispatchTypeOK
      <3>2. CASE m = n
        <4>1. /\ held'[n].id # 0 /\ held'[n].created = old.created /\ held'[n].label = old.label
              /\ held'[parent[n]] = held[parent[n]] /\ held[parent[n]].id # 0
          BY <1>4, <1>5, <1>8, <1>10
        <4>2. ~(held'[n].created < held'[parent[n]].created)
          <5>1. held[parent[n]].created \in Nat
            BY <1>5, HeldFacts DEF RunsInv
          <5>2. QED
            BY <1>4, <2>6, <4>1, <5>1
        <4>3. judge[n] # "created" => judge[n] = "digest"
          BY <1>4 DEF RunsInv, DispatchTypeOK
        <4>4. QED
          BY <2>6, <2>7, <3>2, <4>1, <4>2, <4>3 DEF Stale, Judged
      <3>3. CASE m # n /\ parent[m] = n
        <4>1. Covered(m)
          BY <1>5, <2>3, <3>3 DEF RunsInv, UnderWay, Covered
        <4>2. ASSUME NEW j \in Today, runs[j].node = m PROVE FALSE
          <5>1. j # i
            BY <3>3, <4>2
          <5>2. m < n
            BY <2>4, <4>2, <5>1
          <5>3. QED
            BY <1>5, <3>1, <3>3, <5>2
        <4>3. QED
          BY <4>1, <4>2 DEF Covered
      <3>4. CASE m # n /\ parent[m] # n
        <4>1. Stale(held, m)
          BY <1>10, <2>7, <3>1, <3>4 DEF Stale, Judged
        <4>2. CASE m \in plan
          BY <4>2
        <4>3. CASE \E j \in Today : runs[j].node = m /\ runs[j].stage # "success"
          BY <1>7, <3>4, <4>3
        <4>4. QED
          BY <4>1, <4>2, <4>3 DEF RunsInv, UnderWay
      <3>5. QED
        BY <3>2, <3>3, <3>4
    <2>8. QED
      BY <2>1, <2>2, <2>5, <2>7 DEF RunsInv, UnderWay
  <1>19. QED
    BY <1>12, <1>13, <1>14, <1>16, <1>17, <1>18 DEF RunsInv
-----------------------------------------------------------------------------
(* The order in which images are made.                                       *)
LEMMA MadeBegin == Init => MadeInOrder
  <1> SUFFICES ASSUME Init PROVE MadeInOrder
    OBVIOUS
  <1>0. runs = << >> /\ lastMade = 2 * Len(parent)
    BY DEF Init
  <1>1. Rooted /\ DOMAIN runs = {} /\ lastMade = 2 * Len(parent)
    BY <1>0, StartFacts
  <1>2. Len(parent) \in Nat /\ \A n \in Refs : n \in 0..Len(parent)
    BY <1>1, NodeFacts DEF Refs
  <1>3. ASSUME NEW n \in Refs PROVE held[n].created <= lastMade
    <2>1. n \in 0..Len(parent) /\ Len(parent) \in Nat
      BY <1>2
    <2>2. held[n].created \in {0, Len(parent), Len(parent) - n, Len(parent) + n}
      BY StartFacts
    <2>3. QED
      BY <1>1, <2>1, <2>2
  <1>4. ASSUME NEW n \in Nodes, held[n].id # 0, held[parent[n]].id # 0,
               held[n].from # held[parent[n]].id
        PROVE  held[n].created < held[parent[n]].created
    <2>1. /\ n \in Refs /\ n # 0 /\ n \in Nat /\ parent[n] \in Refs /\ parent[n] \in Nat
          /\ parent[n] < n
      BY <1>1, NodeFacts
    <2>2. held[parent[n]].id = parent[n] + 1
      BY <1>4, <2>1, StartFacts
    <2>3. held[n].created = Len(parent) - n
      BY <1>4, <2>1, <2>2, StartFacts
    <2>4. held[parent[n]].created \in {Len(parent), Len(parent) - parent[n], Len(parent) + parent[n]}
      BY <1>4, <2>1, StartFacts
    <2>5. QED
      BY <1>2, <2>1, <2>3, <2>4
  <1>5. QED
    BY <1>1, <1>3, <1>4 DEF MadeInOrder

(* A step that pushes nothing, and after which no other runs make an image.  *)
LEMMA MadeKept ==
    ASSUME MadeInOrder, UNCHANGED << parent, held, lastMade >>, apart' => apart,
           \A i \in DOMAIN runs' : runs'[i].created <= lastMade,
           \A i \in DOMAIN runs' : runs'[i].stage \in {"building", "built"} =>
              /\ i \in DOMAIN runs /\ runs[i].stage = runs'[i].stage
              /\ runs[i].node = runs'[i].node /\ runs[i].from = runs'[i].from
              /\ runs[i].created = runs'[i].created
    PROVE  MadeInOrder'
  <1>1. UNCHANGED << Nodes, Refs >>
    BY DEF Nodes, Refs
  <1>2. /\ \A n \in Refs : held[n].created <= lastMade
        /\ apart => \A n \in Nodes :
              (held[n].id # 0 /\ held[parent[n]].id # 0 /\ held[n].from # held[parent[n]].id) =>
                 held[n].created < held[parent[n]].created
    BY DEF MadeInOrder
  <1>3. ASSUME NEW i \in DOMAIN runs', apart', Making(i)'
        PROVE  /\ runs'[i].from = baseOf(i)'.id
               /\ \A j \in DOMAIN runs' : Making(j)' => runs'[i].node # parent[runs'[j].node]
               /\ \A n \in Nodes : (runs'[i].stage = "built" /\ parent[n] = runs'[i].node) =>
                     held[n].created < runs'[i].created
    <2>1. /\ i \in DOMAIN runs /\ Making(i) /\ runs[i].stage = runs'[i].stage
          /\ runs[i].node = runs'[i].node /\ runs[i].from = runs'[i].from
          /\ runs[i].created = runs'[i].created
      BY <1>3 DEF Making
    <2>2. baseOf(i)' = baseOf(i)
      BY <2>1 DEF baseOf
    <2>3. \A j \in DOMAIN runs' : Making(j)' =>
             j \in DOMAIN runs /\ Making(j) /\ runs[j].node = runs'[j].node
      BY DEF Making
    <2>4. QED
      BY <1>3, <2>1, <2>2, <2>3 DEF MadeInOrder
  <1>4. \A i \in DOMAIN runs' : runs'[i].stage = "built" => Making(i)'
    BY DEF Making
  <1>5. QED
    BY <1>1, <1>2, <1>3, <1>4 DEF MadeInOrder

(* A build begins: the base is the present one, and is not being made.       *)
LEMMA MadeDocker ==
    ASSUME RunsInv, MadeInOrder, NEW i \in DOMAIN runs, Docker(i)
    PROVE  MadeInOrder'
  <1> DEFINE r == [runs[i] EXCEPT !.stage = "building", !.from = baseOf(i).id]
  <1>1. /\ UNCHANGED << parent, held, lastMade >> /\ Becomes(i, r)
        /\ apart' = (apart /\ \A j \in DOMAIN runs :
                        Making(j) => /\ runs[j].node # parent[runs[i].node]
                                     /\ runs[i].node # parent[runs[j].node])
    BY DEF Docker, Becomes, registryVars
  <1>2. /\ r \in BuildRuns /\ r.node = runs[i].node /\ r.own = runs[i].own
        /\ r.stage = "building" /\ r.from = baseOf(i).id /\ r.created = runs[i].created
    BY RunFacts DEF RunsInv, BuildRuns, Stages
  <1>3. /\ DOMAIN runs' = DOMAIN runs /\ runs'[i] = r
        /\ \A j \in DOMAIN runs : j # i => runs'[j] = runs[j]
        /\ \A j \in DOMAIN runs : runs'[j].node = runs[j].node
    BY <1>1, <1>2, Replaced
  <1> HIDE DEF r
  <1>4. UNCHANGED << Nodes, Refs >> /\ \A j \in DOMAIN runs : baseOf(j)' = baseOf(j)
    BY <1>1, <1>3 DEF Nodes, Refs, baseOf
  <1>5. runs[i].node # parent[runs[i].node]
    BY RunFacts, NodeFacts DEF RunsInv, DispatchTypeOK
  <1>6. \A j \in DOMAIN runs' : runs'[j].created <= lastMade'
    BY <1>1, <1>2, <1>3 DEF MadeInOrder
  <1>7. ASSUME apart' PROVE
           /\ \A j \in DOMAIN runs' : Making(j)' => runs'[j].from = baseOf(j)'.id
           /\ \A j, k \in DOMAIN runs' :
                 (Making(j)' /\ Making(k)') => runs'[j].node # parent[runs'[k].node]
           /\ \A j \in DOMAIN runs', n \in Nodes :
                 (runs'[j].stage = "built" /\ parent[n] = runs'[j].node) =>
                    held[n].created < runs'[j].created
    <2>1. \A j \in DOMAIN runs : j # i => (Making(j)' <=> Making(j))
      BY <1>3 DEF Making
    <2>2. apart /\ \A j \in DOMAIN runs : Making(j) => /\ runs[j].node # parent[runs[i].node]
                                                       /\ runs[i].node # parent[runs[j].node]
      BY <1>1, <1>7
    <2>3. \A j \in DOMAIN runs' : Making(j)' => runs'[j].from = baseOf(j)'.id
      BY <1>2, <1>3, <1>4, <2>1, <2>2 DEF MadeInOrder
    <2>4. \A j, k \in DOMAIN runs' :
             (Making(j)' /\ Making(k)') => runs'[j].node # parent[runs'[k].node]
      BY <1>3, <1>5, <2>1, <2>2 DEF MadeInOrder
    <2>5. \A j \in DOMAIN runs', n \in Nodes :
             (runs'[j].stage = "built" /\ parent[n] = runs'[j].node) =>
                held[n].created < runs'[j].created
      BY <1>2, <1>3, <2>2 DEF MadeInOrder
    <2>6. QED
      BY <2>3, <2>4, <2>5
  <1>8. QED
    BY <1>1, <1>4, <1>6, <1>7 DEF MadeInOrder

(* The image is made: after all that is held.                                *)
LEMMA MadeMake ==
    ASSUME RunsInv, MadeInOrder, NEW i \in DOMAIN runs, Make(i)
    PROVE  MadeInOrder'
  <1> DEFINE r == [runs[i] EXCEPT !.stage = "built", !.created = lastMade + 1]
  <1>1. /\ UNCHANGED << parent, held, apart >> /\ lastMade' = lastMade + 1
        /\ Becomes(i, r) /\ runs[i].stage = "building"
    BY DEF Make, Becomes
  <1>2. /\ lastMade \in Nat /\ r \in BuildRuns /\ r.node = runs[i].node /\ r.own = runs[i].own
        /\ r.stage = "built" /\ r.from = runs[i].from /\ r.created = lastMade + 1
    <2>1. lastMade \in Nat /\ lastMade + 1 \in Nat /\ runs[i] \in BuildRuns
      BY RunFacts DEF RunsInv, DispatchTypeOK
    <2>2. PICK made : made = lastMade + 1
      OBVIOUS
    <2>3. QED
      BY <2>1, <2>2 DEF BuildRuns, Stages
  <1>3. /\ DOMAIN runs' = DOMAIN runs /\ runs'[i] = r
        /\ \A j \in DOMAIN runs : j # i => runs'[j] = runs[j]
        /\ \A j \in DOMAIN runs : runs'[j].node = runs[j].node
    BY <1>1, <1>2, Replaced
  <1> HIDE DEF r
  <1>4. UNCHANGED << Nodes, Refs >> /\ \A j \in DOMAIN runs : baseOf(j)' = baseOf(j)
    BY <1>1, <1>3 DEF Nodes, Refs, baseOf
  <1>5. \A n \in Refs : held[n].created \in Nat /\ held[n].created <= lastMade
    BY HeldFacts DEF RunsInv, MadeInOrder
  <1>6. \A n \in Refs : held[n].created <= lastMade' /\ held[n].created < r.created
    BY <1>1, <1>2, <1>5
  <1>7. \A j \in DOMAIN runs' : runs'[j].created <= lastMade'
    <2>1. \A j \in DOMAIN runs : runs[j].created \in Nat /\ runs[j].created <= lastMade
      BY RunFacts DEF RunsInv, MadeInOrder
    <2>2. QED
      BY <1>1, <1>2, <1>3, <2>1
  <1>8. ASSUME apart PROVE
           /\ \A j \in DOMAIN runs' : Making(j)' => runs'[j].from = baseOf(j)'.id
           /\ \A j, k \in DOMAIN runs' :
                 (Making(j)' /\ Making(k)') => runs'[j].node # parent[runs'[k].node]
           /\ \A j \in DOMAIN runs', n \in Nodes :
                 (runs'[j].stage = "built" /\ parent[n] = runs'[j].node) =>
                    held[n].created < runs'[j].created
    <2>1. \A j \in DOMAIN runs : Making(j)' <=> Making(j)
      BY <1>1, <1>2, <1>3 DEF Making
    <2>2. \A j \in DOMAIN runs' : Making(j)' => runs'[j].from = baseOf(j)'.id
      BY <1>2, <1>3, <1>4, <1>8, <2>1 DEF MadeInOrder
    <2>3. \A j, k \in DOMAIN runs' :
             (Making(j)' /\ Making(k)') => runs'[j].node # parent[runs'[k].node]
      BY <1>3, <1>8, <2>1 DEF MadeInOrder
    <2>4. \A j \in DOMAIN runs', n \in Nodes :
             (runs'[j].stage = "built" /\ parent[n] = runs'[j].node) =>
                held[n].created < runs'[j].created
      BY <1>3, <1>6, <1>8 DEF MadeInOrder, Refs
    <2>5. QED
      BY <2>2, <2>3, <2>4
  <1>9. QED
    BY <1>1, <1>4, <1>6, <1>7, <1>8 DEF MadeInOrder

(* The image is pushed: its base was not being made, nor a dependent.        *)
LEMMA MadePush ==
    ASSUME RunsInv, MadeInOrder, NEW i \in DOMAIN runs, Push(i)
    PROVE  MadeInOrder'
  <1> DEFINE n == runs[i].node
  <1>1. PICK stage \in {"success", "failure"} :
           Becomes(i, [runs[i] EXCEPT !.stage = stage, !.id = lastId + 1])
    BY DEF Push
  <1> DEFINE r == [runs[i] EXCEPT !.stage = stage, !.id = lastId + 1]
             image == [id |-> lastId + 1, created |-> runs[i].created,
                       label |-> runs[i].label, from |-> runs[i].from]
  <1>2. /\ UNCHANGED << parent, lastMade, apart >> /\ Becomes(i, r) /\ runs[i].stage = "built"
        /\ held' = [held EXCEPT ![n] = image]
    BY <1>1 DEF Push, Hold, Labelled, Becomes
  <1>3. /\ lastId \in Nat /\ r \in BuildRuns /\ r.node = n /\ r.own = runs[i].own
        /\ r.stage = stage /\ r.created = runs[i].created
    <2>1. lastId \in Nat /\ lastId + 1 \in Nat /\ runs[i] \in BuildRuns
      BY RunFacts DEF RunsInv, DispatchTypeOK
    <2>2. QED
      BY <1>1, <2>1 DEF BuildRuns, Stages
  <1>4. /\ DOMAIN runs' = DOMAIN runs /\ runs'[i] = r
        /\ \A j \in DOMAIN runs : j # i => runs'[j] = runs[j]
        /\ \A j \in DOMAIN runs : runs'[j].node = runs[j].node
    BY <1>2, <1>3, Replaced
  <1>5. image.created = runs[i].created /\ image.from = runs[i].from
    OBVIOUS
  <1>6. n \in Nodes /\ n \in Refs /\ parent[n] # n
    <2>1. n \in Nodes /\ Rooted
      BY RunFacts DEF RunsInv, DispatchTypeOK
    <2>2. n \in Refs /\ n \in Nat /\ parent[n] \in Nat /\ parent[n] < n
      BY <2>1, NodeFacts
    <2>3. QED
      BY <2>1, <2>2
  <1>7. held'[n] = image /\ \A m \in Refs : m # n => held'[m] = held[m]
    BY <1>2, <1>6 DEF RunsInv, DispatchTypeOK
  <1> HIDE DEF r, image
  <1>8. UNCHANGED << Nodes, Refs >> /\ \A m \in Nodes : m \in Refs /\ parent[m] \in Refs
    BY <1>2, NodeFacts DEF Nodes, Refs, RunsInv, DispatchTypeOK
  <1>9. \A m \in Refs : held'[m].created <= lastMade'
    BY <1>2, <1>5, <1>7 DEF MadeInOrder
  <1>10. \A j \in DOMAIN runs' : runs'[j].created <= lastMade'
    BY <1>2, <1>3, <1>4 DEF MadeInOrder
  <1>11. \A j \in DOMAIN runs' : Making(j)' =>
            /\ j # i /\ runs'[j] = runs[j] /\ Making(j) /\ runs[j].node \in Nodes
            /\ baseOf(j)' = held'[parent[runs[j].node]] /\ baseOf(j) = held[parent[runs[j].node]]
    BY <1>1, <1>2, <1>3, <1>4, RunFacts DEF Making, RunsInv, baseOf
  <1>12. ASSUME apart PROVE
           /\ \A j \in DOMAIN runs' : Making(j)' => runs'[j].from = baseOf(j)'.id
           /\ \A j, k \in DOMAIN runs' :
                 (Making(j)' /\ Making(k)') => runs'[j].node # parent[runs'[k].node]
           /\ \A j \in DOMAIN runs', m \in Nodes :
                 (runs'[j].stage = "built" /\ parent[m] = runs'[j].node) =>
                    held'[m].created < runs'[j].created
           /\ \A m \in Nodes :
                 (held'[m].id # 0 /\ held'[parent[m]].id # 0
                  /\ held'[m].from # held'[parent[m]].id) =>
                    held'[m].created < held'[parent[m]].created
    <2>1. Making(i) /\ \A j \in DOMAIN runs : Making(j) =>
             runs[j].node # parent[n] /\ n # parent[runs[j].node]
      BY <1>2, <1>12 DEF MadeInOrder, Making
    <2>2. \A j \in DOMAIN runs' : Making(j)' => runs'[j].from = baseOf(j)'.id
      <3> SUFFICES ASSUME NEW j \in DOMAIN runs', Making(j)'
                   PROVE  runs'[j].from = baseOf(j)'.id
        OBVIOUS
      <3>1. /\ j \in DOMAIN runs /\ runs'[j] = runs[j] /\ Making(j) /\ runs[j].node \in Nodes
            /\ baseOf(j)' = held'[parent[runs[j].node]] /\ baseOf(j) = held[parent[runs[j].node]]
        BY <1>4, <1>11
      <3>2. parent[runs[j].node] # n /\ parent[runs[j].node] \in Refs
        BY <1>8, <2>1, <3>1
      <3>3. runs[j].from = baseOf(j).id
        BY <1>12, <3>1 DEF MadeInOrder
      <3>4. QED
        BY <1>7, <3>1, <3>2, <3>3
    <2>3. \A j, k \in DOMAIN runs' :
             (Making(j)' /\ Making(k)') => runs'[j].node # parent[runs'[k].node]
      BY <1>4, <1>11, <1>12 DEF MadeInOrder
    <2>4. ASSUME NEW j \in DOMAIN runs', NEW m \in Nodes,
                 runs'[j].stage = "built", parent[m] = runs'[j].node
          PROVE  held'[m].created < runs'[j].created
      <3>1. Making(j)'
        BY <2>4 DEF Making
      <3>2. j \in DOMAIN runs /\ runs'[j] = runs[j] /\ Making(j)
        BY <1>4, <1>11, <3>1
      <3>3. m # n
        BY <2>1, <2>4, <3>2
      <3>4. held[m].created < runs[j].created
        BY <1>12, <2>4, <3>2 DEF MadeInOrder
      <3>5. QED
        BY <1>7, <1>8, <3>2, <3>3, <3>4
    <2>5. ASSUME NEW m \in Nodes, held'[m].id # 0, held'[parent[m]].id # 0,
                 held'[m].from # held'[parent[m]].id
          PROVE  held'[m].created < held'[parent[m]].created
      <3>1. m \in Refs /\ parent[m] \in Refs
        BY <1>8
      <3>2. CASE m = n
        <4>1. held'[m].from = runs[i].from /\ held'[parent[m]] = held[parent[m]]
          BY <1>5, <1>6, <1>7, <3>1, <3>2
        <4>2. runs[i].from = held[parent[n]].id
          BY <1>12, <2>1 DEF MadeInOrder, baseOf
        <4>3. QED
          BY <2>5, <3>2, <4>1, <4>2
      <3>3. CASE m # n /\ parent[m] = n
        <4>1. held[m].created < runs[i].created
          BY <1>2, <1>12, <3>3 DEF MadeInOrder
        <4>2. QED
          BY <1>5, <1>7, <3>1, <3>3, <4>1
      <3>4. CASE m # n /\ parent[m] # n
        <4>1. held'[m] = held[m] /\ held'[parent[m]] = held[parent[m]]
          BY <1>7, <3>1, <3>4
        <4>2. QED
          BY <1>12, <2>5, <4>1 DEF MadeInOrder
      <3>5. QED
        BY <3>2, <3>3, <3>4
    <2>6. QED
      BY <2>2, <2>3, <2>4, <2>5
  <1>13. QED
    BY <1>2, <1>8, <1>9, <1>10, <1>12 DEF MadeInOrder

(* Upstream moves: while nothing is built on it, and to a new image.         *)
LEMMA MadeUpstream ==
    ASSUME RunsInv, MadeInOrder, UpstreamMoves
    PROVE  MadeInOrder'
  <1>1. PICK age \in Ages :
          /\ age <= lastMade + 1
          /\ Hold(0, Plain(lastId + 1, lastMade + 1 - age))
          /\ lastMade' = IF age = 0 THEN lastMade + 1 ELSE lastMade
          /\ apart' = (/\ apart
                       /\ age = 0
                       /\ \A j \in DOMAIN runs : Making(j) => parent[runs[j].node] # 0)
    BY DEF UpstreamMoves
  <1> DEFINE image == Plain(lastId + 1, lastMade + 1 - age)
  <1>2. /\ UNCHANGED << parent, runs >> /\ held' = [held EXCEPT ![0] = image]
        /\ image.created = lastMade + 1 - age
    BY <1>1 DEF UpstreamMoves, Hold, Plain
  <1>3. /\ age \in Nat /\ lastMade \in Nat /\ 0 \in Refs
        /\ \A n \in Refs : held[n].created \in Nat /\ held[n].created <= lastMade
    BY DispatchAssumption, HeldFacts DEF RunsInv, DispatchTypeOK, MadeInOrder, Refs
  <1>4. held'[0] = image /\ \A n \in Refs : n # 0 => held'[n] = held[n]
    BY <1>2, <1>3 DEF RunsInv, DispatchTypeOK
  <1> HIDE DEF image
  <1>5. /\ UNCHANGED << Nodes, Refs >>
        /\ \A n \in Nodes : n \in Refs /\ n # 0 /\ parent[n] \in Refs
    BY <1>2, NodeFacts DEF Nodes, Refs, RunsInv, DispatchTypeOK
  <1>6. \A n \in Refs : held'[n].created <= lastMade'
    BY <1>1, <1>2, <1>3, <1>4
  <1>7. \A i \in DOMAIN runs' : runs'[i].created <= lastMade'
    <2>1. \A i \in DOMAIN runs : runs[i].created \in Nat /\ runs[i].created <= lastMade
      BY RunFacts DEF RunsInv, MadeInOrder
    <2>2. QED
      BY <1>1, <1>2, <1>3, <2>1
  <1>8. ASSUME apart' PROVE
           /\ \A i \in DOMAIN runs' : Making(i)' => runs'[i].from = baseOf(i)'.id
           /\ \A i, j \in DOMAIN runs' :
                 (Making(i)' /\ Making(j)') => runs'[i].node # parent[runs'[j].node]
           /\ \A i \in DOMAIN runs', n \in Nodes :
                 (runs'[i].stage = "built" /\ parent[n] = runs'[i].node) =>
                    held'[n].created < runs'[i].created
           /\ \A n \in Nodes :
                 (held'[n].id # 0 /\ held'[parent[n]].id # 0
                  /\ held'[n].from # held'[parent[n]].id) =>
                    held'[n].created < held'[parent[n]].created
    <2>1. /\ apart /\ age = 0 /\ \A j \in DOMAIN runs : Making(j) => parent[runs[j].node] # 0
          /\ \A j \in DOMAIN runs : Making(j)' <=> Making(j)
      BY <1>1, <1>2, <1>8 DEF Making
    <2>2. \A i \in DOMAIN runs' : Making(i)' => runs'[i].from = baseOf(i)'.id
      <3> SUFFICES ASSUME NEW i \in DOMAIN runs, Making(i)
                   PROVE  runs[i].from = baseOf(i)'.id
        BY <1>2, <2>1
      <3>1. parent[runs[i].node] \in Refs /\ parent[runs[i].node] # 0
        BY <2>1, RunFacts DEF RunsInv
      <3>2. baseOf(i)' = baseOf(i)
        BY <1>2, <1>4, <3>1 DEF baseOf
      <3>3. QED
        BY <2>1, <3>2 DEF MadeInOrder
    <2>3. \A i, j \in DOMAIN runs' :
             (Making(i)' /\ Making(j)') => runs'[i].node # parent[runs'[j].node]
      BY <1>2, <2>1 DEF MadeInOrder
    <2>4. \A i \in DOMAIN runs', n \in Nodes :
             (runs'[i].stage = "built" /\ parent[n] = runs'[i].node) =>
                held'[n].created < runs'[i].created
      BY <1>2, <1>4, <1>5, <2>1 DEF MadeInOrder
    <2>5. ASSUME NEW n \in Nodes, held'[n].id # 0, held'[parent[n]].id # 0,
                 held'[n].from # held'[parent[n]].id
          PROVE  held'[n].created < held'[parent[n]].created
      <3>1. n \in Refs /\ parent[n] \in Refs /\ held'[n] = held[n]
        BY <1>4, <1>5
      <3>2. CASE parent[n] = 0
        BY <1>2, <1>3, <1>4, <2>1, <3>1, <3>2
      <3>3. CASE parent[n] # 0
        <4>1. held'[parent[n]] = held[parent[n]]
          BY <1>4, <3>1, <3>3
        <4>2. QED
          BY <2>1, <2>5, <3>1, <4>1 DEF MadeInOrder
      <3>4. QED
        BY <3>2, <3>3
    <2>6. QED
      BY <2>2, <2>3, <2>4, <2>5
  <1>9. QED
    BY <1>2, <1>5, <1>6, <1>7, <1>8 DEF MadeInOrder

(* The other steps of runs and of the refresh job.                           *)
LEMMA MadeQuiet ==
    ASSUME RunsInv, MadeInOrder,
           \/ UNCHANGED dispatchVars \/ Refresh \/ Dispatch \/ List \/ Watch \/ RefreshFails
           \/ Foreign
           \/ \E i \in DOMAIN runs : Register(i) \/ Resolve(i) \/ JobFails(i)
    PROVE  MadeInOrder'
  <1>1. \A i \in DOMAIN runs : runs[i].created <= lastMade
    BY DEF MadeInOrder
  <1>2. CASE UNCHANGED dispatchVars \/ Refresh \/ List \/ Watch \/ RefreshFails
    <2>1. UNCHANGED << parent, held, lastMade, apart, runs >>
      BY <1>2 DEF dispatchVars, registryVars, Refresh, List, Watch, RefreshFails
    <2>2. QED
      BY <1>1, <2>1, MadeKept
  <1>3. CASE Dispatch \/ Foreign
    <2>1. PICK n \in Nodes, own \in BOOLEAN : runs' = Append(runs, Run(n, own))
      BY <1>3 DEF Dispatch, Foreign, IsNext, RunsInv, DispatchTypeOK
    <2>2. UNCHANGED << parent, held, lastMade, apart >>
      BY <1>3 DEF Dispatch, Foreign, registryVars
    <2>3. PICK k : k = Len(runs) + 1
      OBVIOUS
    <2>4. /\ DOMAIN runs = 1..Len(runs) /\ Len(runs) \in Nat /\ DOMAIN runs' = 1..k
          /\ \A i \in DOMAIN runs : runs'[i] = runs[i]
          /\ runs'[k].stage = "accepted" /\ runs'[k].created = 0
      BY <2>1, <2>3 DEF RunsInv, DispatchTypeOK, Run
    <2>5. \A i \in DOMAIN runs' : i \in DOMAIN runs \/ i = k
      BY <2>3, <2>4
    <2>6. lastMade \in Nat
      BY DEF RunsInv, DispatchTypeOK
    <2>7. \A i \in DOMAIN runs' : runs'[i].created <= lastMade
      BY <1>1, <2>4, <2>5, <2>6
    <2>8. \A i \in DOMAIN runs' : runs'[i].stage \in {"building", "built"} =>
              /\ i \in DOMAIN runs /\ runs[i].stage = runs'[i].stage
              /\ runs[i].node = runs'[i].node /\ runs[i].from = runs'[i].from
              /\ runs[i].created = runs'[i].created
      BY <2>4, <2>5
    <2>9. QED
      BY <2>2, <2>7, <2>8, MadeKept
  <1>4. ASSUME NEW i \in DOMAIN runs, Register(i) \/ Resolve(i) \/ JobFails(i)
        PROVE  MadeInOrder'
    <2>1. PICK l \in Nat, stage \in {"queued", "resolved", "failure"} :
             Becomes(i, [runs[i] EXCEPT !.stage = stage, !.label = l])
      <3>1. CASE Register(i)
        <4>1. Becomes(i, [runs[i] EXCEPT !.stage = "queued"])
          BY <3>1 DEF Register
        <4>2. runs[i] \in BuildRuns /\ runs[i].label \in Nat
          BY RunFacts DEF RunsInv
        <4>3. [runs[i] EXCEPT !.stage = "queued"]
                 = [runs[i] EXCEPT !.stage = "queued", !.label = runs[i].label]
          BY <4>2 DEF BuildRuns
        <4>4. QED
          BY <4>1, <4>2, <4>3
      <3>2. CASE Resolve(i)
        <4>1. baseOf(i).id \in Nat
          BY RunFacts DEF RunsInv
        <4>2. QED
          BY <3>2, <4>1 DEF Resolve
      <3>3. CASE JobFails(i)
        <4>1. Becomes(i, [runs[i] EXCEPT !.stage = "failure"])
          BY <3>3 DEF JobFails
        <4>2. runs[i] \in BuildRuns /\ runs[i].label \in Nat
          BY RunFacts DEF RunsInv
        <4>3. [runs[i] EXCEPT !.stage = "failure"]
                 = [runs[i] EXCEPT !.stage = "failure", !.label = runs[i].label]
          BY <4>2 DEF BuildRuns
        <4>4. QED
          BY <4>1, <4>2, <4>3
      <3>4. QED
        BY <1>4, <3>1, <3>2, <3>3
    <2>2. PICK r : r = [runs[i] EXCEPT !.stage = stage, !.label = l]
      OBVIOUS
    <2>3. /\ r \in BuildRuns /\ r.node = runs[i].node /\ r.own = runs[i].own
          /\ r.stage = stage /\ r.created = runs[i].created
      <3>1. runs[i] \in BuildRuns
        BY RunFacts DEF RunsInv
      <3>2. QED
        BY <2>1, <2>2, <3>1 DEF BuildRuns, Stages
    <2>4. /\ DOMAIN runs' = DOMAIN runs /\ runs'[i] = r
          /\ \A j \in DOMAIN runs : j # i => runs'[j] = runs[j]
      BY <2>1, <2>2, <2>3, Replaced
    <2>5. UNCHANGED << parent, held, lastMade, apart >>
      BY <1>4 DEF Register, Resolve, JobFails, Becomes, registryVars
    <2>6. \A j \in DOMAIN runs' : runs'[j].created <= lastMade
      BY <1>1, <2>3, <2>4
    <2>7. \A j \in DOMAIN runs' : runs'[j].stage \in {"building", "built"} => j # i
      BY <2>1, <2>3, <2>4
    <2>8. QED
      BY <2>4, <2>5, <2>6, <2>7, MadeKept
  <1>5. QED
    BY <1>2, <1>3, <1>4

(* What is not on its base's present image is stale: the digest says so, or  *)
(* the order in which the images were made.                                  *)
LEMMA Visible ==
    ASSUME DispatchTypeOK, Numbered, MadeInOrder
    PROVE  NothingHidden
  <1> SUFFICES ASSUME NEW n \in Nodes, held[n].from # held[parent[n]].id,
                      judge[n] = "digest" \/ apart
               PROVE  n \in OutdatedIn(held)
    BY DEF NothingHidden
  <1>1. n \in Refs /\ parent[n] \in Refs
    BY NodeFacts DEF DispatchTypeOK
  <1>2. Stale(held, n)
    <2>1. CASE held[n].id = 0 \/ held[parent[n]].id = 0
      BY <2>1 DEF Stale
    <2>2. CASE held[n].id # 0 /\ held[parent[n]].id # 0 /\ judge[n] = "digest"
      <3>1. held[n].label <= held[n].from /\ held[n].from <= held[parent[n]].id
        BY <2>2 DEF Numbered
      <3>2. /\ held[n].label \in Nat /\ held[n].from \in Nat /\ held[parent[n]].id \in Nat
        BY <1>1, HeldFacts
      <3>3. held[n].label # held[parent[n]].id
        BY <3>1, <3>2
      <3>4. QED
        BY <2>2, <3>3 DEF Stale, Judged
    <2>3. CASE held[n].id # 0 /\ held[parent[n]].id # 0 /\ judge[n] # "digest"
      <3>1. judge[n] = "created"
        BY <2>3 DEF DispatchTypeOK
      <3>2. held[n].created < held[parent[n]].created
        BY <2>3 DEF MadeInOrder
      <3>3. QED
        BY <3>1, <3>2 DEF Stale, Judged
    <2>4. QED
      BY <2>1, <2>2, <2>3
  <1>3. QED
    BY <1>2, OutdatedFacts DEF DispatchTypeOK
-----------------------------------------------------------------------------
(* Every step keeps the invariant.                                           *)
LEMMA DispatchStep ==
    ASSUME DispatchInv, [Next]_dispatchVars
    PROVE  DispatchInv'
  <1> USE DEF DispatchInv
  <1>1. CASE UNCHANGED dispatchVars
    <2>1. UNCHANGED << parent, judge, held, lastId, lastMade, past, runs, plan, first, events,
                       apart, pc, watched, stray, quiet >>
      BY <1>1 DEF dispatchVars, registryVars, refreshVars
    <2>2. Waited'
      BY <2>1 DEF RunsInv, Waited, StopsOnFailure, Today
    <2>3. RunsInv'
      BY <2>1, <2>2, SameRuns DEF RunsInv, DispatchTypeOK, UnderWay
    <2>4. QED
      BY <1>1, <2>3, MadeQuiet
  <1>2. CASE Refresh
    BY <1>2, InvRefresh, MadeQuiet
  <1>3. CASE RefreshNext \/ RefreshFails
    BY <1>3, InvDispatch, InvList, InvWatch, MadeQuiet DEF RefreshNext
  <1>4. ASSUME NEW i \in DOMAIN runs, Register(i) \/ Job(i) \/ JobFails(i)
        PROVE  DispatchInv'
    <2>1. CASE Register(i) \/ Resolve(i) \/ JobFails(i)
      BY <2>1, InvRun, MadeQuiet DEF MadeInOrder
    <2>2. CASE Docker(i)
      BY <2>2, InvRun, MadeDocker DEF MadeInOrder
    <2>3. CASE Make(i)
      BY <2>3, InvRun, MadeMake DEF MadeInOrder
    <2>4. CASE Push(i)
      BY <2>4, InvPush, MadePush
    <2>5. QED
      BY <1>4, <2>1, <2>2, <2>3, <2>4 DEF Job
  <1>5. CASE Foreign
    BY <1>5, InvForeign, MadeQuiet
  <1>6. CASE UpstreamMoves
    BY <1>6, InvUpstream, MadeUpstream
  <1>7. QED
    BY <1>1, <1>2, <1>3, <1>4, <1>5, <1>6 DEF Next, RunsNext

(* The invariant of the build automation holds in every reachable state, of  *)
(* every graph: the order of the days, of the runs and of the images.        *)
THEOREM DispatchInvariant == DispatchSpec => []DispatchInv
  <1>1. Init => DispatchInv
    BY InvBegin, MadeBegin DEF DispatchInv
  <1>2. DispatchInv /\ [Next]_dispatchVars => DispatchInv'
    BY DispatchStep
  <1>3. QED
    BY <1>1, <1>2, PTL DEF DispatchSpec

(* refresh.yaml waits for each build: a run is on the image that today's run  *)
(* for its base pushed, or on a later one, whatever else pushes meanwhile.   *)
THEOREM DispatchBaseFirst == DispatchSpec => []BaseFirst
  <1>1. DispatchInv => BaseFirst
    BY DEF DispatchInv, RunsInv
  <1>2. QED
    BY <1>1, DispatchInvariant, PTL

(* Nothing is dispatched on top of a failed build.                           *)
THEOREM DispatchStopsOnFailure == DispatchSpec => []StopsOnFailure
  <1>1. DispatchInv => StopsOnFailure
    BY DEF DispatchInv, RunsInv, Waited, StopsOnFailure
  <1>2. QED
    BY <1>1, DispatchInvariant, PTL

(* A node that is not on its base's present image is outdated for whoever    *)
(* reads the registry next: always if it is judged by digest; under the      *)
(* default chain as long as no base was made or pushed while a dependent was *)
(* being built and no upstream image was pushed later than it was made.      *)
THEOREM DispatchNothingHidden == DispatchSpec => []NothingHidden
  <1>1. DispatchInv => NothingHidden
    BY Visible DEF DispatchInv, RunsInv
  <1>2. QED
    BY <1>1, DispatchInvariant, PTL

(* A day that ends with "done", and that nobody and nothing interfered with,  *)
(* leaves nothing outdated.                                                  *)
THEOREM DispatchDoneIsSettled == DispatchSpec => []DoneIsSettled
  <1>1. ASSUME DispatchInv PROVE DoneIsSettled
    <2> SUFFICES ASSUME pc = "done", quiet PROVE OutdatedIn(held) = {}
      BY DEF DoneIsSettled
    <2>0. RunsInv
      BY <1>1 DEF DispatchInv
    <2>1. ~stray /\ plan = {}
      BY <2>0 DEF RunsInv, UnderWay, Waited
    <2>2. \A i \in Today : runs[i].stage = "success"
      BY <2>0, <2>1 DEF RunsInv, Waited
    <2>3. \A n \in Nodes : ~Stale(held, n)
      BY <2>0, <2>1, <2>2 DEF RunsInv, UnderWay
    <2>4. QED
      BY <2>0, <2>3, OutdatedFacts DEF RunsInv, DispatchTypeOK
  <1>2. QED
    BY <1>1, DispatchInvariant, PTL
=============================================================================
