----------------------------- MODULE SelectProofs -----------------------------
(***************************************************************************)
(* The loops of semverSelector.Select, for every listing and selector:     *)
(* lines holds the winners of what was seen, and the result descends.      *)
(***************************************************************************)
EXTENDS SemverSelect, OrderLemmas

LEMMA Components ==
    ASSUME NEW t \in Tag
    PROVE  Major(t) \in Nat /\ Minor(t) \in Nat /\ Patch(t) \in Nat
  BY DEF Tag, Major, Minor, Patch, Component

LEMMA LinesInvInit == Init => LinesInv /\ NewestFirst
  <1> SUFFICES ASSUME Init PROVE LinesInv /\ NewestFirst
    OBVIOUS
  <1>1. tags \in Seq(Tag) /\ sel \in Selector
    BY SelectAssumption DEF Init
  <1>a. << >> \in Seq(Tag) /\ Len(tags) \in Nat
    BY <1>1
  <1>b. pos \in 1..(Len(tags) + 1)
    BY <1>a DEF Init
  <1>2. TypeOK
    BY <1>a, <1>b, Zenon DEF Init, TypeOK
  <1>3. Seen = << >>
    BY <1>1 DEF Init, Seen
  <1>4. LinesAreWinners /\ LinesCover
    BY <1>3 DEF Init, LinesAreWinners, LinesCover, Winners, Candidates
  <1>5. Descends /\ NewestFirst
    BY DEF Init, Descends, NewestFirst
  <1>6. QED
    BY <1>2, <1>4, <1>5 DEF LinesInv

(* The tags seen, before and after one more.                                 *)
LEMMA SeenGrows ==
    ASSUME LinesInv, Collapse
    PROVE  /\ tags \in Seq(Tag) /\ pos \in 1..Len(tags) /\ tags[pos] \in Tag
           /\ DOMAIN Seen = 1..(pos - 1) /\ \A i \in 1..(pos - 1) : Seen[i] = tags[i] /\ tags[i] \in Tag
           /\ DOMAIN Seen' = 1..pos /\ \A i \in 1..pos : Seen'[i] = tags[i]
  BY SelectAssumption DEF LinesInv, TypeOK, Collapse, Seen

(* Among candidates of one line, GreaterThan compares the patches.           *)
LEMMA LineOrder ==
    ASSUME NEW a \in Tag, NEW b \in Tag, SameLine(a, b)
    PROVE  GreaterThan(a, b) <=> Patch(a) > Patch(b)
  BY Components DEF SameLine, GreaterThan

LEMMA Older ==
    ASSUME LinesInv, Collapse, NEW i \in 1..(pos - 1)
    PROVE  IsWinner(sel, Seen', i) <=>
              /\ IsWinner(sel, Seen, i)
              /\ (Candidate(sel, tags[pos]) /\ SameLine(tags[pos], tags[i])) =>
                    Patch(tags[pos]) <= Patch(tags[i])
  <1> DEFINE t == tags[pos]
  <1>1. i # pos /\ i <= pos
    BY SeenGrows
  <1>2. Candidates(sel, Seen') = {j \in 1..pos : Candidate(sel, tags[j])}
    BY SeenGrows DEF Candidates
  <1>3. Candidates(sel, Seen) = {j \in 1..(pos - 1) : Candidate(sel, tags[j])}
    BY SeenGrows DEF Candidates
  <1>4. Patch(t) \in Nat /\ Patch(tags[i]) \in Nat
    BY SeenGrows, Components
  <1>5. (Patch(t) < Patch(tags[i]) \/ (Patch(t) = Patch(tags[i]) /\ i <= pos))
        <=> Patch(t) <= Patch(tags[i])
    BY <1>1, <1>4
  <1>6. \A j \in 1..pos : j \in 1..(pos - 1) \/ j = pos
    BY SeenGrows
  <1>7. pos \in 1..pos /\ 1..(pos - 1) \subseteq 1..pos
    BY SeenGrows
  <1> HIDE DEF t
  <1>8. QED
    BY <1>2, <1>3, <1>5, <1>6, <1>7, SeenGrows DEF IsWinner, t

LEMMA Newest ==
    ASSUME LinesInv, Collapse
    PROVE  IsWinner(sel, Seen', pos) <=> Replaces(tags[pos])
  <1> DEFINE t == tags[pos]
  <1>1. Candidates(sel, Seen') = {j \in 1..pos : Candidate(sel, tags[j])}
    BY SeenGrows DEF Candidates
  <1>2. Candidates(sel, Seen) = {j \in 1..(pos - 1) : Candidate(sel, tags[j])}
    BY SeenGrows DEF Candidates
  <1>3. lines \subseteq Tag /\ t \in Tag
    BY SeenGrows DEF LinesInv, TypeOK
  <1>4. ASSUME Replaces(t), NEW j \in Candidates(sel, Seen'), SameLine(tags[j], t)
        PROVE  Patch(tags[j]) < Patch(t) \/ (Patch(tags[j]) = Patch(t) /\ pos <= j)
    <2>1. CASE j = pos
      BY <2>1, SeenGrows
    <2>2. CASE j # pos
      <3>1. j \in Candidates(sel, Seen) /\ tags[j] \in Tag
        BY <1>1, <1>2, <1>4, <2>2, SeenGrows
      <3>2. PICK l \in lines : SameLine(l, tags[j]) /\ Patch(tags[j]) <= Patch(l)
        BY <3>1 DEF LinesInv, LinesCover
      <3>3. SameLine(l, t) /\ SameLine(t, l)
        BY <3>2, <1>4 DEF SameLine
      <3>4. Patch(t) > Patch(l)
        BY <3>3, <1>3, <1>4, LineOrder DEF Replaces
      <3>5. QED
        BY <3>1, <3>2, <3>4, <1>3, Components
    <2>3. QED
      BY <2>1, <2>2
  <1>5. ASSUME IsWinner(sel, Seen', pos), NEW l \in lines, SameLine(l, t)
        PROVE  GreaterThan(t, l)
    <2>1. PICK i \in 1..(pos - 1) : l = tags[i] /\ i \in Candidates(sel, Seen)
      BY <1>2, SeenGrows DEF LinesInv, LinesAreWinners, Winners, IsWinner
    <2>2. i \in Candidates(sel, Seen') /\ ~(pos <= i)
      BY <2>1, <1>1, <1>2, SeenGrows
    <2>3. Patch(l) < Patch(t)
      BY <1>5, <2>1, <2>2, SeenGrows DEF IsWinner
    <2>4. SameLine(t, l)
      BY <1>5 DEF SameLine
    <2>5. QED
      BY <2>3, <2>4, <1>3, LineOrder, Components
  <1>6. pos \in Candidates(sel, Seen') <=> Candidate(sel, t)
    BY <1>1, SeenGrows
  <1>7. Seen'[pos] = t /\ \A j \in Candidates(sel, Seen') : Seen'[j] = tags[j]
    BY <1>1, SeenGrows
  <1>8. Replaces(t) => IsWinner(sel, Seen', pos)
    BY <1>4, <1>6, <1>7 DEF IsWinner, Replaces
  <1>9. IsWinner(sel, Seen', pos) => Replaces(t)
    BY <1>5, <1>6 DEF IsWinner, Replaces
  <1>10. QED
    BY <1>8, <1>9

LEMMA LinesInvCollapse ==
    ASSUME LinesInv, Collapse
    PROVE  LinesInv' /\ NewestFirst'
  <1> DEFINE t == tags[pos]
  <1>1. Candidates(sel, Seen') = {j \in 1..pos : Candidate(sel, tags[j])}
    BY SeenGrows DEF Candidates
  <1>2. Candidates(sel, Seen) = {j \in 1..(pos - 1) : Candidate(sel, tags[j])}
    BY SeenGrows DEF Candidates
  <1>3. lines \subseteq Tag /\ t \in Tag /\ sel' = sel /\ tags' = tags
    BY SeenGrows DEF LinesInv, TypeOK, Collapse
  <1>4. out = << >>
    BY SeenGrows DEF LinesInv, Descends
  <1>5. TypeOK'
    <2>1. pos' \in 1..(Len(tags) + 1)
      BY SeenGrows DEF Collapse
    <2>2. lines' \in SUBSET Tag
      BY <1>3 DEF Collapse
    <2>3. QED
      BY <2>1, <2>2 DEF LinesInv, TypeOK, Collapse
  <1>6. LinesAreWinners'
    <2>1. Winners(sel, Seen') = {tags[i] : i \in {j \in 1..pos : IsWinner(sel, Seen', j)}}
      BY SeenGrows DEF Winners, IsWinner
    <2>2. lines = {tags[i] : i \in {j \in 1..(pos - 1) : IsWinner(sel, Seen, j)}}
      BY SeenGrows DEF LinesInv, LinesAreWinners, Winners, IsWinner
    <2>3. \A j \in 1..pos : j \in 1..(pos - 1) \/ j = pos
      BY SeenGrows
    <2>4. pos \in 1..pos /\ 1..(pos - 1) \subseteq 1..pos
      BY SeenGrows
    <2>5. CASE Replaces(t)
      <3>1. \A i \in 1..(pos - 1) : IsWinner(sel, Seen, i) =>
               (IsWinner(sel, Seen', i) <=> ~SameLine(tags[i], t))
        <4> SUFFICES ASSUME NEW i \in 1..(pos - 1), IsWinner(sel, Seen, i)
                     PROVE  IsWinner(sel, Seen', i) <=> ~SameLine(tags[i], t)
          OBVIOUS
        <4>1. tags[i] \in lines /\ tags[i] \in Tag
          BY <2>2, <1>3
        <4>2. SameLine(tags[i], t) => Patch(t) > Patch(tags[i])
          BY <2>5, <4>1, <1>3, LineOrder DEF Replaces, SameLine
        <4>3. SameLine(tags[i], t) <=> SameLine(t, tags[i])
          BY DEF SameLine
        <4>4. Candidate(sel, t)
          BY <2>5 DEF Replaces
        <4>5. Patch(t) \in Nat /\ Patch(tags[i]) \in Nat
          BY <1>3, <4>1, Components
        <4>6. IsWinner(sel, Seen', i) <=> (SameLine(t, tags[i]) => Patch(t) <= Patch(tags[i]))
          BY <4>4, Older
        <4>7. QED
          BY <4>2, <4>3, <4>5, <4>6
      <3>2. IsWinner(sel, Seen', pos)
        BY <2>5, Newest
      <3>3. \A i \in 1..(pos - 1) : IsWinner(sel, Seen', i) => IsWinner(sel, Seen, i)
        BY Older
      <3>4. lines' = {l \in lines : ~SameLine(l, t)} \cup {t}
        BY <2>5 DEF Collapse
      <3>5. QED
        BY <2>1, <2>2, <2>3, <2>4, <3>1, <3>2, <3>3, <3>4, <1>3 DEF LinesAreWinners
    <2>6. CASE ~Replaces(t)
      <3>1. \A i \in 1..(pos - 1) : IsWinner(sel, Seen, i) => IsWinner(sel, Seen', i)
        <4> SUFFICES ASSUME NEW i \in 1..(pos - 1), IsWinner(sel, Seen, i),
                            Candidate(sel, t), SameLine(t, tags[i])
                     PROVE  Patch(t) <= Patch(tags[i])
          BY Older
        <4>1. PICK l \in lines : SameLine(l, t) /\ ~GreaterThan(t, l)
          BY <2>6 DEF Replaces
        <4>2. PICK j \in 1..(pos - 1) : l = tags[j] /\ IsWinner(sel, Seen, j)
          BY <4>1, <2>2
        <4>3. tags[i] \in Tag /\ l \in Tag
          BY <4>1, <1>3, SeenGrows
        <4>4. ~(Patch(t) > Patch(l))
          BY <4>1, <4>3, <1>3, LineOrder DEF SameLine
        <4>5. Patch(l) <= Patch(tags[i])
          <5>1. SameLine(tags[j], tags[i]) /\ j \in Candidates(sel, Seen)
            BY <4>1, <4>2 DEF SameLine, IsWinner
          <5>2. \/ Patch(tags[j]) < Patch(tags[i])
                \/ Patch(tags[j]) = Patch(tags[i])
            BY <5>1, SeenGrows DEF IsWinner
          <5>3. QED
            BY <5>2, <4>2, <4>3, Components
        <4>6. QED
          BY <4>3, <4>4, <4>5, <1>3, Components
      <3>2. ~IsWinner(sel, Seen', pos)
        BY <2>6, Newest
      <3>3. \A i \in 1..(pos - 1) : IsWinner(sel, Seen', i) => IsWinner(sel, Seen, i)
        BY Older
      <3>4. lines' = lines
        BY <2>6 DEF Collapse
      <3>5. QED
        BY <2>1, <2>2, <2>3, <2>4, <3>1, <3>2, <3>3, <3>4, <1>3 DEF LinesAreWinners
    <2>7. QED
      BY <2>5, <2>6
  <1>7. LinesCover'
    <2> SUFFICES ASSUME NEW i \in Candidates(sel, Seen')
                 PROVE  \E l \in lines' : SameLine(l, tags[i]) /\ Patch(tags[i]) <= Patch(l)
      BY <1>3 DEF LinesCover
    <2>1. i \in 1..pos /\ tags[i] \in Tag
      BY <1>1, <1>3, SeenGrows
    <2>2. CASE i \in Candidates(sel, Seen)
      <3>1. PICK l \in lines : SameLine(l, tags[i]) /\ Patch(tags[i]) <= Patch(l)
        BY <2>2 DEF LinesInv, LinesCover
      <3>2. CASE l \in lines'
        BY <3>1, <3>2
      <3>3. CASE l \notin lines'
        <4>1. Replaces(t) /\ SameLine(l, t) /\ t \in lines'
          BY <3>3 DEF Collapse
        <4>2. Patch(t) > Patch(l) /\ SameLine(t, tags[i])
          BY <4>1, <3>1, <1>3, LineOrder DEF Replaces, SameLine
        <4>3. QED
          BY <4>1, <4>2, <3>1, <2>1, <1>3, Components
      <3>4. QED
        BY <3>2, <3>3
    <2>3. CASE i \notin Candidates(sel, Seen)
      <3>1. i = pos /\ Candidate(sel, t)
        BY <2>1, <2>3, <1>1, <1>2, SeenGrows
      <3>2. CASE Replaces(t)
        BY <3>1, <3>2, <1>3, Components DEF Collapse, SameLine
      <3>3. CASE ~Replaces(t)
        <4>1. PICK l \in lines : SameLine(l, t) /\ ~GreaterThan(t, l)
          BY <3>1, <3>3 DEF Replaces
        <4>2. ~(Patch(t) > Patch(l))
          BY <4>1, <1>3, LineOrder DEF SameLine
        <4>3. lines' = lines /\ Patch(t) <= Patch(l)
          BY <3>3, <4>1, <4>2, <1>3, Components DEF Collapse
        <4>4. QED
          BY <3>1, <4>1, <4>3
      <3>4. QED
        BY <3>2, <3>3
    <2>4. QED
      BY <2>2, <2>3
  <1>8. Descends' /\ NewestFirst'
    BY <1>4 DEF LinesInv, Descends, NewestFirst, Collapse
  <1>9. QED
    BY <1>5, <1>6, <1>7, <1>8 DEF LinesInv

LEMMA LinesInvTake ==
    ASSUME LinesInv, NewestFirst, Take
    PROVE  LinesInv' /\ NewestFirst'
  <1>1. PICK t \in todo :
           /\ IsNewest(todo, t)
           /\ todo' = todo \ {t}
           /\ IF MajorFull(t)
              THEN UNCHANGED << majors, out >>
              ELSE /\ majors' = majors \cup {Major(t)}
                   /\ out' = IF MinorFull(t) THEN out ELSE Append(out, t)
    BY DEF Take
  <1>2. t \in Tag /\ todo \subseteq Tag /\ out \in Seq(Tag)
    BY DEF LinesInv, TypeOK
  <1>a. majors' = majors \/ majors' = majors \cup {Major(t)}
    BY <1>1
  <1>3. UNCHANGED << tags, sel, pos, lines, done >> /\ pos > Len(tags)
    BY DEF Take
  <1>4. pos \in Nat /\ Len(tags) \in Nat
    BY SelectAssumption DEF LinesInv, TypeOK
  <1>5. TypeOK'
    <2>1. out' \in Seq(Tag)
      BY <1>1, <1>2
    <2>2. majors' \in SUBSET Nat
      <3>1. majors \in SUBSET Nat
        BY DEF LinesInv, TypeOK
      <3>2. Major(t) \in Nat
        BY <1>2, Components
      <3>3. QED
        BY <1>a, <3>1, <3>2
    <2>3. todo' \in SUBSET Tag
      BY <1>1, <1>2
    <2>4. QED
      BY <2>1, <2>2, <2>3, <1>3, Zenon DEF LinesInv, TypeOK
  <1>6. LinesAreWinners' /\ LinesCover'
    BY <1>3 DEF LinesInv, LinesAreWinners, LinesCover, Seen
  <1>7. \A u \in todo' : u \in todo /\ GreaterThan(t, u)
    BY <1>1 DEF IsNewest
  <1>8. CASE out' = out
    <2>1. Descends'
      BY <1>a, <1>3, <1>4, <1>7, <1>8 DEF LinesInv, Descends
    <2>2. QED
      BY <1>5, <1>6, <1>8, <2>1 DEF LinesInv, NewestFirst
  <1>9. CASE out' # out
    <2>1. out' = Append(out, t) /\ majors' = majors \cup {Major(t)}
      BY <1>1, <1>9
    <2>2. /\ DOMAIN out' = DOMAIN out \cup {Len(out) + 1}
          /\ out'[Len(out) + 1] = t
          /\ \A i \in DOMAIN out : out'[i] = out[i] /\ i < Len(out) + 1
      BY <2>1, <1>2
    <2>3. \A i \in DOMAIN out : ~(Len(out) + 1 < i)
      BY <1>2
    <2>4. NewestFirst'
      BY <1>1, <1>2, <2>2, <2>3 DEF LinesInv, Descends, NewestFirst
    <2>5. Descends'
      BY <1>3, <1>4, <1>7, <2>1, <2>2 DEF LinesInv, Descends
    <2>6. QED
      BY <1>5, <1>6, <2>4, <2>5 DEF LinesInv
  <1>10. QED
    BY <1>8, <1>9

(* One tag stands for a line.                                                *)
LEMMA OnePerLine ==
    ASSUME LinesInv, NEW a \in lines, NEW b \in lines, SameLine(a, b)
    PROVE  a = b
  <1>1. PICK i \in DOMAIN Seen : a = Seen[i] /\ IsWinner(sel, Seen, i)
    BY DEF LinesInv, LinesAreWinners, Winners
  <1>2. PICK j \in DOMAIN Seen : b = Seen[j] /\ IsWinner(sel, Seen, j)
    BY DEF LinesInv, LinesAreWinners, Winners
  <1>3. i \in Nat /\ j \in Nat
    BY SelectAssumption DEF LinesInv, TypeOK, Seen
  <1>4. i \in Candidates(sel, Seen) /\ j \in Candidates(sel, Seen) /\ SameLine(b, a)
    BY <1>1, <1>2 DEF IsWinner, SameLine
  <1>5. Patch(a) \in Nat /\ Patch(b) \in Nat
    BY Components DEF LinesInv, TypeOK
  <1>6. Patch(b) < Patch(a) \/ (Patch(b) = Patch(a) /\ i <= j)
    BY <1>1, <1>2, <1>4 DEF IsWinner
  <1>7. Patch(a) < Patch(b) \/ (Patch(a) = Patch(b) /\ j <= i)
    BY <1>1, <1>2, <1>4 DEF IsWinner
  <1>8. i = j
    BY <1>3, <1>5, <1>6, <1>7
  <1>9. QED
    BY <1>1, <1>2, <1>8

LEMMA FiniteMajors ==
    ASSUME NEW S, IsFiniteSet(S)
    PROVE  IsFiniteSet({Major(l) : l \in S})
  <1> DEFINE T == {Major(l) : l \in S}
             f == [l \in S |-> Major(l)]
  <1>1. f \in Surjection(S, T)
    BY DEF Surjection
  <1>2. QED
    BY <1>1, FS_Surjection

(* A result that descends holds no tag twice.                                *)
LEMMA GivenSize ==
    ASSUME LinesInv, NewestFirst, NEW m
    PROVE  /\ IsFiniteSet(Given(m)) /\ IsFiniteSet({out[k] : k \in Given(m)})
           /\ Cardinality(Given(m)) = Cardinality({out[k] : k \in Given(m)})
  <1> DEFINE O == Given(m)
  <1>1. out \in Seq(Tag)
    BY DEF LinesInv, TypeOK
  <1>2. Len(out) \in Nat /\ DOMAIN out = 1..Len(out)
    BY <1>1
  <1>3. IsFiniteSet(O)
    BY <1>2, FS_Subset, IntervalSize DEF Given
  <1>4. \A k \in O : k \in DOMAIN out /\ k \in Nat /\ out[k] \in Tag
    BY <1>1, <1>2 DEF Given
  <1>5. ASSUME NEW j \in O, NEW k \in O, out[j] = out[k] PROVE j = k
    <2>1. ~GreaterThan(out[j], out[k]) /\ ~GreaterThan(out[k], out[j])
      BY <1>4, <1>5, Components DEF GreaterThan, SameLine
    <2>2. ~(j < k) /\ ~(k < j)
      BY <1>4, <2>1 DEF NewestFirst
    <2>3. QED
      BY <1>4, <2>2
  <1>6. QED
    BY <1>3, <1>5, DistinctSize

(* What the sorted loops find when they come to a line: every line of a      *)
(* newer major, or of a newer minor of the same one, was passed, and nothing *)
(* else of the same major.                                                   *)
LEMMA Coming ==
    ASSUME SelectInv, NEW t \in todo, IsNewest(todo, t)
    PROVE  /\ t \in lines /\ t \notin Passed /\ t \in Tag /\ lines \subseteq Tag
           /\ Passed \subseteq lines
           /\ \A l \in Passed : Major(l) >= Major(t)
           /\ \A l \in lines : Major(l) > Major(t) => l \in Passed
           /\ \A l \in lines : Major(l) = Major(t) =>
                 (l \in Passed <=> Minor(l) > Minor(t))
  <1>1. t \in lines /\ t \notin Passed /\ Passed \subseteq lines
    BY DEF SelectInv, TakeInv, Sorted, Passed
  <1>2. lines \subseteq Tag
    BY DEF SelectInv, LinesInv, TypeOK
  <1>3. \A l \in Passed : GreaterThan(l, t)
    BY DEF SelectInv, TakeInv, Sorted
  <1>4. \A l \in lines : l \in Passed \/ l = t \/ GreaterThan(t, l)
    BY DEF IsNewest, Passed
  <1>5. \A l \in lines : SameLine(l, t) => l = t
    BY <1>1, OnePerLine DEF SelectInv
  <1>6. \A l \in lines : /\ Major(l) \in Nat /\ Minor(l) \in Nat
                         /\ Major(t) \in Nat /\ Minor(t) \in Nat
    BY <1>1, <1>2, Components
  <1>7. \A l \in Passed : Major(l) >= Major(t)
    BY <1>1, <1>3, <1>6 DEF GreaterThan, SameLine
  <1>8. \A l \in lines : Major(l) > Major(t) => l \in Passed
    BY <1>4, <1>6 DEF GreaterThan, SameLine
  <1>9. \A l \in lines : Major(l) = Major(t) => (l \in Passed <=> Minor(l) > Minor(t))
    <2> SUFFICES ASSUME NEW l \in lines, Major(l) = Major(t)
                 PROVE  l \in Passed <=> Minor(l) > Minor(t)
      OBVIOUS
    <2>1. ASSUME l \in Passed PROVE Minor(l) > Minor(t)
      <3>1. GreaterThan(l, t) /\ ~SameLine(l, t)
        BY <1>1, <1>3, <1>5, <2>1
      <3>2. QED
        BY <3>1, <1>6 DEF GreaterThan, SameLine
    <2>2. ASSUME Minor(l) > Minor(t) PROVE l \in Passed
      <3>1. ~GreaterThan(t, l) /\ l # t
        BY <1>6, <2>2 DEF GreaterThan, SameLine
      <3>2. QED
        BY <1>4, <3>1
    <2>3. QED
      BY <2>1, <2>2
  <1>10. QED
    BY <1>1, <1>2, <1>7, <1>8, <1>9

(* The slice of the majors: when the loops come to a line, the majors        *)
(* entered say whether its own is among the first lastMajor of all.          *)
LEMMA MajorsCut ==
    ASSUME SelectInv, NEW t \in todo, IsNewest(todo, t)
    PROVE  MajorFull(t) <=> ~MajorKept(sel, lines, Major(t))
  <1> DEFINE m == Major(t)
             N == sel.lastMajor
             All == {Major(l) : l \in lines}
             H == {k \in All : k > m}
             P == {Major(l) : l \in Passed}
  <1>1. N \in Nat
    BY SelectAssumption DEF SelectInv, LinesInv, TypeOK, Selector
  <1>2. m \in Nat /\ All \subseteq Nat
    BY Coming, Components
  <1>3. IsFiniteSet(All) /\ IsFiniteSet(H) /\ m \notin H
    <2>1. IsFiniteSet(All)
      BY FiniteMajors DEF SelectInv, TakeInv, Sorted
    <2>2. QED
      BY <1>2, <2>1, FS_Subset
  <1>4. H \subseteq P /\ P \subseteq H \cup {m}
    <2>1. H \subseteq P
      BY Coming
    <2>2. ASSUME NEW l \in Passed PROVE Major(l) \in H \cup {m}
      <3>1. l \in lines /\ Major(l) >= m /\ Major(l) \in Nat
        BY Coming, Components
      <3>2. QED
        BY <3>1, <1>2
    <2>3. QED
      BY <2>1, <2>2
  <1>5. /\ IsFiniteSet(H \cup {m})
        /\ Cardinality(H) \in Nat /\ Cardinality(H \cup {m}) = Cardinality(H) + 1
    BY <1>3, FS_AddElement, FS_CardinalityType
  <1>6. majors \subseteq P /\ (m \in majors => MajorKept(sel, lines, m))
    BY DEF SelectInv, TakeInv, MajorsExact
  <1>7. MajorFull(t) <=> N > 0 /\ Cardinality(majors \cup {m}) > N
    BY DEF MajorFull
  <1>8. MajorKept(sel, lines, m) <=> N = 0 \/ Cardinality(H) < N
    BY DEF MajorKept
  <1>9. CASE majors = P
    <2>1. majors \cup {m} = H \cup {m}
      BY <1>4, <1>9
    <2>2. Cardinality(majors \cup {m}) = Cardinality(H) + 1
      BY <1>5, <2>1
    <2> HIDE DEF N, H, P
    <2>3. QED
      BY <1>1, <1>5, <1>7, <1>8, <2>2
  <1>10. CASE N > 0 /\ Cardinality(majors) >= N
    <2>1. majors \subseteq H \cup {m}
      BY <1>4, <1>6
    <2>2. IsFiniteSet(majors) /\ Cardinality(majors) \in Nat
      BY <1>5, <2>1, FS_Subset, FS_CardinalityType
    <2>3. CASE m \in majors
      <3>1. Cardinality(majors \cup {m}) = Cardinality(majors)
        <4>1. majors \cup {m} = majors
          BY <2>3
        <4>2. QED
          BY <4>1
      <3>2. Cardinality(majors) <= Cardinality(H) + 1
        BY <1>5, <2>1, FS_Subset
      <3>3. Cardinality(H) < N
        BY <1>6, <1>8, <1>10, <2>3
      <3> HIDE DEF N, H, P
      <3>4. QED
        BY <1>1, <1>5, <1>7, <1>8, <2>2, <3>1, <3>2, <3>3
    <2>4. CASE m \notin majors
      <3>1. Cardinality(majors \cup {m}) = Cardinality(majors) + 1
        BY <2>2, <2>4, FS_AddElement
      <3>2. majors \subseteq H
        BY <2>1, <2>4
      <3>3. Cardinality(majors) <= Cardinality(H)
        BY <1>3, <3>2, FS_Subset
      <3> HIDE DEF N, H, P
      <3>4. QED
        BY <1>1, <1>5, <1>7, <1>8, <1>10, <2>2, <3>1, <3>3
    <2>5. QED
      BY <2>3, <2>4
  <1>11. QED
    BY <1>9, <1>10 DEF SelectInv, TakeInv, MajorsExact

(* The slice of a major's lines, for a major that stays.                     *)
LEMMA MinorsCut ==
    ASSUME SelectInv, NewestFirst, NEW t \in todo, IsNewest(todo, t),
           MajorKept(sel, lines, Major(t))
    PROVE  MinorFull(t) <=> ~MinorKept(sel, lines, t)
  <1> DEFINE m == Major(t)
             M == sel.lastMinor
             G == {l \in lines : Major(l) = m /\ Minor(l) > Minor(t)}
             S == {out[k] : k \in Given(m)}
  <1>1. M \in Nat
    BY SelectAssumption DEF SelectInv, LinesInv, TypeOK, Selector
  <1>2. G = Entered(m)
    BY Coming DEF Entered
  <1>3. IsFiniteSet(G) /\ Cardinality(G) \in Nat
    BY FS_Subset, FS_CardinalityType DEF SelectInv, TakeInv, Sorted
  <1>4. Cardinality(Given(m)) = Cardinality(S) /\ Cardinality(S) \in Nat
    BY GivenSize, FS_CardinalityType DEF SelectInv
  <1>5. S \subseteq G
    <2>1. \A k \in DOMAIN out : out[k] \in Passed
      BY DEF SelectInv, TakeInv, TakenSoFar
    <2>2. QED
      BY <1>2, <2>1 DEF Given, Entered
  <1>6. Cardinality(S) <= Cardinality(G)
    BY <1>3, <1>5, FS_Subset
  <1>7. m \in {Major(l) : l \in lines}
    BY Coming
  <1>8. S = G \/ (M > 0 /\ Cardinality(S) = M)
    BY <1>2, <1>4, <1>7 DEF SelectInv, TakeInv, MinorsExact
  <1>9. M > 0 => Cardinality(S) <= M
    BY <1>4, <1>7 DEF SelectInv, TakeInv, WithinLimit
  <1>10. MinorFull(t) <=> M > 0 /\ Cardinality(S) = M
    BY <1>4 DEF MinorFull, Given
  <1>11. MinorKept(sel, lines, t) <=> M = 0 \/ Cardinality(G) < M
    BY DEF MinorKept
  <1> HIDE DEF m, M, G, S
  <1>12. QED
    BY <1>1, <1>3, <1>4, <1>6, <1>8, <1>9, <1>10, <1>11

LEMMA TakeInvInit == Init => TakeInv
  <1> SUFFICES ASSUME Init PROVE TakeInv
    OBVIOUS
  <1>1. lines = {} /\ todo = {} /\ majors = {} /\ out = << >> /\ done = FALSE
    BY DEF Init
  <1>2. Sorted /\ Phases
    BY <1>1, FS_EmptySet DEF Sorted, Phases, Passed
  <1>3. MajorsExact /\ MinorsExact /\ WithinLimit /\ TakenSoFar
    BY <1>1 DEF MajorsExact, MinorsExact, WithinLimit, TakenSoFar, Passed
  <1>4. QED
    BY <1>2, <1>3 DEF TakeInv

LEMMA TakeInvCollapse ==
    ASSUME SelectInv, Collapse
    PROVE  TakeInv'
  <1>1. pos <= Len(tags) /\ tags' = tags /\ pos' = pos + 1 /\ done' = done
    BY DEF Collapse
  <1>2. out' = << >> /\ majors' = {} /\ done' = FALSE
    BY <1>1 DEF Collapse, SelectInv, LinesInv, Descends, TakeInv, Phases, TypeOK
  <1>3. todo' = lines' /\ lines' \subseteq lines \cup {tags[pos]}
    BY DEF Collapse
  <1>4. IsFiniteSet(lines')
    BY <1>3, FS_AddElement, FS_Subset DEF SelectInv, TakeInv, Sorted
  <1>5. Passed' = {}
    BY <1>3 DEF Passed
  <1>6. Sorted' /\ Phases'
    BY <1>2, <1>3, <1>4, <1>5 DEF Sorted, Phases
  <1>7. MajorsExact' /\ TakenSoFar'
    BY <1>2, <1>5 DEF MajorsExact, TakenSoFar
  <1>8. \A m : Given(m)' = {} /\ Entered(m)' = {}
    BY <1>2, <1>5 DEF Given, Entered
  <1>9. MinorsExact' /\ WithinLimit'
    <2>1. \A m : Cardinality(Given(m)') = 0 /\ {out'[k] : k \in Given(m)'} = Entered(m)'
      BY <1>8, FS_EmptySet
    <2>2. sel.lastMinor' \in Nat
      BY SelectAssumption DEF SelectInv, LinesInv, TypeOK, Selector, Collapse
    <2>3. QED
      BY <2>1, <2>2 DEF MinorsExact, WithinLimit
  <1>10. QED
    BY <1>6, <1>7, <1>9 DEF TakeInv

LEMMA TakeInvTake ==
    ASSUME SelectInv, NewestFirst, NewestFirst', LinesInv', Take
    PROVE  TakeInv'
  <1>1. PICK t \in todo :
           /\ IsNewest(todo, t)
           /\ todo' = todo \ {t}
           /\ IF MajorFull(t)
              THEN UNCHANGED << majors, out >>
              ELSE /\ majors' = majors \cup {Major(t)}
                   /\ out' = IF MinorFull(t) THEN out ELSE Append(out, t)
    BY DEF Take
  <1>2. UNCHANGED << tags, sel, pos, lines, done >> /\ pos > Len(tags)
    BY DEF Take
  <1>3. Passed' = Passed \cup {t} /\ t \notin Passed /\ t \in lines /\ t \in Tag
    BY <1>1, <1>2, Coming DEF Passed
  <1>4. MajorFull(t) <=> ~MajorKept(sel, lines, Major(t))
    BY <1>1, MajorsCut
  <1>5. MajorKept(sel, lines, Major(t)) =>
           (MinorFull(t) <=> ~MinorKept(sel, lines, t))
    BY <1>1, MinorsCut
  <1>6. Sorted'
    <2>1. \A u \in todo' : GreaterThan(t, u)
      BY <1>1 DEF IsNewest
    <2>2. QED
      BY <1>1, <1>2, <1>3, <2>1 DEF SelectInv, TakeInv, Sorted
  <1>7. Phases'
    <2>1. pos \in Nat /\ Len(tags) \in Nat
      BY SelectAssumption DEF SelectInv, LinesInv, TypeOK
    <2>2. ~done
      BY DEF SelectInv, TakeInv, Phases
    <2>3. QED
      BY <1>2, <2>1, <2>2 DEF Phases
  <1>8. MajorsExact'
    <2> DEFINE Keep(l) == MajorKept(sel, lines, Major(l))
               N == sel.lastMajor
    <2>1. majors = {Major(l) : l \in {p \in Passed : Keep(p)}}
      BY DEF SelectInv, TakeInv, MajorsExact
    <2>2. majors' = {Major(l) : l \in {p \in Passed' : Keep(p)}}
      <3>1. CASE Keep(t)
        <4>1. {p \in Passed' : Keep(p)} = {p \in Passed : Keep(p)} \cup {t}
          BY <1>3, <3>1
        <4>2. majors' = majors \cup {Major(t)}
          BY <1>1, <1>4, <3>1
        <4> HIDE DEF Keep
        <4>3. QED
          BY <2>1, <4>1, <4>2
      <3>2. CASE ~Keep(t)
        <4>1. {p \in Passed' : Keep(p)} = {p \in Passed : Keep(p)}
          BY <1>3, <3>2
        <4>2. majors' = majors
          BY <1>1, <1>4, <3>2
        <4> HIDE DEF Keep
        <4>3. QED
          BY <2>1, <4>1, <4>2
      <3>3. QED
        BY <3>1, <3>2
    <2>3. majors' = {Major(l) : l \in Passed'} \/ (N > 0 /\ Cardinality(majors') >= N)
      <3>1. N \in Nat
        BY SelectAssumption DEF SelectInv, LinesInv, TypeOK, Selector
      <3>2. IsFiniteSet(majors) /\ Cardinality(majors) \in Nat
        <4>1. IsFiniteSet({p \in Passed : Keep(p)})
          BY FS_Subset DEF SelectInv, TakeInv, Sorted, Passed
        <4>2. IsFiniteSet(majors)
          BY <2>1, <4>1, FiniteMajors
        <4>3. QED
          BY <4>2, FS_CardinalityType
      <3>3. /\ IsFiniteSet(majors \cup {Major(t)})
            /\ Cardinality(majors \cup {Major(t)}) \in Nat
            /\ Cardinality(majors \cup {Major(t)}) =
                  IF Major(t) \in majors THEN Cardinality(majors) ELSE Cardinality(majors) + 1
        BY <3>2, FS_AddElement, FS_CardinalityType
      <3>4. CASE majors = {Major(l) : l \in Passed}
        <4>1. CASE MajorFull(t)
          <5>1. N > 0 /\ Cardinality(majors \cup {Major(t)}) > N /\ majors' = majors
            BY <1>1, <4>1 DEF MajorFull
          <5>2. QED
            BY <3>1, <3>2, <3>3, <5>1
        <4>2. CASE ~MajorFull(t)
          <5>1. majors' = majors \cup {Major(t)}
            BY <1>1, <4>2
          <5>2. QED
            BY <1>3, <3>4, <5>1
        <4>3. QED
          BY <4>1, <4>2
      <3>5. CASE N > 0 /\ Cardinality(majors) >= N
        <4>1. majors' = majors \/ majors' = majors \cup {Major(t)}
          BY <1>1
        <4>2. Cardinality(majors') >= N
          BY <3>1, <3>2, <3>3, <3>5, <4>1
        <4>3. QED
          BY <3>5, <4>2
      <3>6. QED
        BY <3>4, <3>5 DEF SelectInv, TakeInv, MajorsExact
    <2>4. QED
      BY <1>2, <2>2, <2>3 DEF MajorsExact
  <1> DEFINE Stays == MajorKept(sel, lines, Major(t))
             Added == Stays /\ MinorKept(sel, lines, t)
  <1>9. IF Added THEN out' = Append(out, t) ELSE out' = out
    BY <1>1, <1>4, <1>5
  <1>10. out \in Seq(Tag) /\ Len(out) \in Nat
    BY DEF SelectInv, LinesInv, TypeOK
  <1>11. TakenSoFar'
    <2> DEFINE Kept(l) == MajorKept(sel, lines, Major(l)) /\ MinorKept(sel, lines, l)
               R == {l \in Passed : Kept(l)}
               RP == {l \in Passed' : Kept(l)}
    <2>1. {out[k] : k \in DOMAIN out} = R
      BY DEF SelectInv, TakeInv, TakenSoFar
    <2>2. {out'[k] : k \in DOMAIN out'} = RP
      <3>1. CASE Added
        <4>1. RP = R \cup {t}
          BY <1>3, <3>1
        <4>2. {out'[k] : k \in DOMAIN out'} = {out[k] : k \in DOMAIN out} \cup {t}
          BY <1>3, <1>9, <1>10, <3>1, AppendRange
        <4>3. QED
          BY <2>1, <4>1, <4>2
      <3>2. CASE ~Added
        <4>1. RP = R /\ out' = out
          BY <1>3, <1>9, <3>2
        <4>2. QED
          BY <2>1, <4>1
      <3>3. QED
        BY <3>1, <3>2
    <2>3. QED
      BY <1>2, <2>2 DEF TakenSoFar
  <1> DEFINE S(m) == {out[k] : k \in Given(m)}
             SP(m) == {out'[k] : k \in Given(m)'}
             Limit == sel.lastMinor
             All == {Major(l) : l \in lines}
  <1>12. \A m : (m # Major(t) \/ ~Added) => SP(m) = S(m) /\ Given(m)' = Given(m)
    <2>1. CASE ~Added
      BY <1>9, <2>1 DEF Given
    <2>2. CASE Added
      <3> SUFFICES ASSUME NEW m, m # Major(t) PROVE SP(m) = S(m) /\ Given(m)' = Given(m)
        BY <2>2
      <3>1. /\ \A k \in DOMAIN out : k \in DOMAIN out' /\ out'[k] = out[k]
            /\ out'[Len(out) + 1] = t
            /\ \A k \in DOMAIN out' : k \in DOMAIN out \/ k = Len(out) + 1
        BY <1>3, <1>9, <1>10, <2>2, AppendRange
      <3>2. Given(m)' = Given(m)
        BY <3>1 DEF Given
      <3>3. \A k \in Given(m) : out'[k] = out[k]
        BY <3>1 DEF Given
      <3>4. QED
        BY <3>2, <3>3
    <2>3. QED
      BY <2>1, <2>2
  <1>13. Added => SP(Major(t)) = S(Major(t)) \cup {t}
    <2> SUFFICES ASSUME Added PROVE SP(Major(t)) = S(Major(t)) \cup {t}
      OBVIOUS
    <2>1. /\ \A k \in DOMAIN out : k \in DOMAIN out' /\ out'[k] = out[k]
          /\ out'[Len(out) + 1] = t
          /\ Len(out) + 1 \in DOMAIN out'
          /\ \A k \in DOMAIN out' : k \in DOMAIN out \/ k = Len(out) + 1
      BY <1>3, <1>9, <1>10, AppendRange
    <2>2. QED
      BY <2>1 DEF Given
  <1>14. \A m : Entered(m)' = IF m = Major(t) /\ Stays
                              THEN Entered(m) \cup {t} ELSE Entered(m)
    BY <1>2, <1>3 DEF Entered
  <1>15. Added => \/ Limit = 0
                  \/ Limit > 0 /\ Cardinality(Given(Major(t))) # Limit
    BY <1>4, <1>5, SelectAssumption DEF MinorFull, Given, SelectInv, LinesInv, TypeOK, Selector
  <1>16. Stays /\ ~Added => Limit > 0 /\ Cardinality(Given(Major(t))) = Limit
    BY <1>4, <1>5 DEF MinorFull, Given
  <1>17. MinorsExact'
    <2> SUFFICES ASSUME NEW m \in All
                 PROVE  \/ SP(m) = Entered(m)'
                        \/ Limit > 0 /\ Cardinality(Given(m)') = Limit
      BY <1>2 DEF MinorsExact
    <2>1. S(m) = Entered(m) \/ (Limit > 0 /\ Cardinality(Given(m)) = Limit)
      BY DEF SelectInv, TakeInv, MinorsExact
    <2>2. CASE m # Major(t) \/ ~Stays
      BY <1>12, <1>14, <2>1, <2>2
    <2>3. CASE m = Major(t) /\ Added
      BY <1>13, <1>14, <1>15, <2>1, <2>3
    <2>4. CASE m = Major(t) /\ Stays /\ ~Added
      BY <1>12, <1>16, <2>4
    <2>5. QED
      BY <2>2, <2>3, <2>4
  <1>18. WithinLimit'
    <2> SUFFICES ASSUME Limit > 0, NEW m \in All
                 PROVE  Cardinality(Given(m)') <= Limit
      BY <1>2 DEF WithinLimit
    <2>1. Cardinality(Given(m)) <= Limit
      BY DEF SelectInv, TakeInv, WithinLimit
    <2>2. CASE m # Major(t) \/ ~Added
      BY <1>12, <2>1, <2>2
    <2>3. CASE m = Major(t) /\ Added
      <3>1. IsFiniteSet(S(m)) /\ Cardinality(Given(m)) = Cardinality(S(m))
        BY GivenSize DEF SelectInv
      <3>2. Cardinality(Given(m)') = Cardinality(SP(m))
        <4>1. (Cardinality(Given(m)) = Cardinality({out[k] : k \in Given(m)}))'
          BY GivenSize, PTL
        <4>2. QED
          BY <4>1
      <3>3. /\ Cardinality(S(m)) \in Nat /\ Cardinality(SP(m)) \in Nat
            /\ Cardinality(SP(m)) <= Cardinality(S(m)) + 1
        <4>1. SP(m) = S(m) \cup {t}
          BY <1>13, <2>3
        <4> HIDE DEF S, SP
        <4>2. /\ IsFiniteSet(S(m) \cup {t}) /\ Cardinality(S(m)) \in Nat
              /\ Cardinality(S(m) \cup {t}) =
                    IF t \in S(m) THEN Cardinality(S(m)) ELSE Cardinality(S(m)) + 1
          BY <3>1, FS_AddElement, FS_CardinalityType
        <4>3. Cardinality(S(m) \cup {t}) \in Nat
          BY <4>2, FS_CardinalityType
        <4>4. QED
          BY <4>1, <4>2, <4>3
      <3>4. Limit \in Nat
        BY SelectAssumption DEF SelectInv, LinesInv, TypeOK, Selector
      <3>5. Cardinality(S(m)) # Limit
        BY <1>15, <2>3, <3>1
      <3> HIDE DEF S, SP, Limit
      <3>6. QED
        BY <2>1, <3>1, <3>2, <3>3, <3>4, <3>5
    <2>4. QED
      BY <2>2, <2>3
  <1>19. QED
    BY <1>6, <1>7, <1>8, <1>11, <1>17, <1>18 DEF TakeInv

LEMMA SelectInductive == SelectInv /\ NewestFirst /\ [Next]_vars => SelectInv' /\ NewestFirst'
  <1> SUFFICES ASSUME SelectInv, NewestFirst, [Next]_vars PROVE SelectInv' /\ NewestFirst'
    OBVIOUS
  <1>1. CASE Collapse
    BY <1>1, LinesInvCollapse, TakeInvCollapse DEF SelectInv
  <1>2. CASE Take
    BY <1>2, LinesInvTake, TakeInvTake DEF SelectInv
  <1>3. ASSUME UNCHANGED << tags, sel, pos, lines, todo, majors, out >>, done' \in BOOLEAN,
               done' = done \/ (pos > Len(tags) /\ todo = {})
        PROVE  SelectInv' /\ NewestFirst'
    <2>1. LinesInv' /\ NewestFirst'
      BY <1>3 DEF SelectInv, LinesInv, TypeOK, LinesAreWinners, LinesCover, Seen,
                  Descends, NewestFirst
    <2>2. Sorted' /\ Phases'
      BY <1>3 DEF SelectInv, TakeInv, Sorted, Phases, Passed
    <2>3. MajorsExact' /\ TakenSoFar'
      BY <1>3 DEF SelectInv, TakeInv, MajorsExact, TakenSoFar, Passed
    <2>4. \A m : Given(m)' = Given(m) /\ Entered(m)' = Entered(m)
      BY <1>3 DEF Given, Entered, Passed
    <2>5. MinorsExact' /\ WithinLimit'
      BY <1>3, <2>4 DEF SelectInv, TakeInv, MinorsExact, WithinLimit
    <2>6. QED
      BY <2>1, <2>2, <2>3, <2>5 DEF SelectInv, TakeInv
  <1>4. CASE Return
    BY <1>3, <1>4 DEF Return
  <1>5. CASE UNCHANGED vars
    BY <1>3, <1>5 DEF vars, SelectInv, LinesInv, TypeOK
  <1>6. QED
    BY <1>1, <1>2, <1>4, <1>5 DEF Next

LEMMA SelectInvInit == Init => SelectInv /\ NewestFirst
  BY LinesInvInit, TakeInvInit DEF SelectInv

(* The whole result, once nothing is left to meet.                           *)
LEMMA DoneIsExact == SelectInv => SelectionExact
  <1> SUFFICES ASSUME SelectInv, done
               PROVE  {out[k] : k \in DOMAIN out} = Selected(sel, tags)
    BY DEF SelectionExact
  <1>1. pos > Len(tags) /\ todo = {}
    BY DEF SelectInv, TakeInv, Phases
  <1>2. tags \in Seq(Tag) /\ pos \in 1..(Len(tags) + 1) /\ Len(tags) \in Nat
    BY SelectAssumption DEF SelectInv, LinesInv, TypeOK
  <1>3. pos - 1 = Len(tags)
    BY <1>1, <1>2
  <1>4. Seen = tags
    BY <1>2, <1>3 DEF Seen
  <1>5. lines = Winners(sel, tags) /\ Passed = lines
    BY <1>1, <1>4 DEF SelectInv, LinesInv, LinesAreWinners, Passed
  <1>6. QED
    BY <1>5 DEF SelectInv, TakeInv, TakenSoFar, Selected

(* For every listing and selector lines holds the winner of each line of     *)
(* what the loop of Select has seen, and what the sorted loops have returned *)
(* so far is what should be returned of the lines they have passed.          *)
THEOREM SelectInvariant == Spec => []SelectInv
  BY SelectInvInit, SelectInductive, PTL DEF Spec

(* The result strictly descends: graph.Build may give a floating tag to the  *)
(* first version that renders it.                                            *)
THEOREM SelectNewestFirst == Spec => []NewestFirst
  BY SelectInvInit, SelectInductive, PTL DEF Spec

(* The result is the set docs/port.md describes, whatever the order of the   *)
(* listing and whatever the limits: truncating the majors and then each      *)
(* major's lines, one tag at a time, cuts off neither too few nor too many.  *)
THEOREM SelectSelectionExact == Spec => []SelectionExact
  BY SelectInvariant, DoneIsExact, PTL
===============================================================================
