----------------------------- MODULE CalverProofs -----------------------------
(***************************************************************************)
(* calverSelector.Select, for every layout, listing and set of predicates: *)
(* the scan of parse reads a tag as the layout cuts it, and the versions   *)
(* returned are the newest of those kept.                                  *)
(***************************************************************************)
EXTENDS CalverSelect, OrderLemmas

-----------------------------------------------------------------------------
(* What the selector and the tags look like.                                 *)
LEMMA Params ==
    ASSUME TypeOK
    PROVE  /\ tags \in Seq(Tag) /\ Len(tags) \in Nat
           /\ WellFormed(layout) /\ layout \in Seq(Segment)
           /\ Len(layout) \in Nat \ {0} /\ DOMAIN layout = 1..Len(layout)
           /\ Tag \subseteq Seq(Char) /\ last \in Int
           /\ pos \in 1..(Len(tags) + 1) /\ si \in 1..(Len(layout) + 1)
           /\ Reading => pos \in 1..Len(tags) /\ tag \in Tag /\ tag \in Seq(Char)
  <1>1. tags \in Seq(Tag) /\ WellFormed(layout) /\ Tag \subseteq Seq(Char) /\ last \in Int
    BY CalverAssumption DEF TypeOK
  <1>2. layout \in Seq(Segment) /\ layout # << >>
    BY <1>1 DEF WellFormed
  <1>3. Len(layout) \in Nat \ {0} /\ DOMAIN layout = 1..Len(layout)
    BY <1>2
  <1>4. pos \in 1..(Len(tags) + 1) /\ si \in 1..(Len(layout) + 1) /\ Len(tags) \in Nat
    BY <1>1 DEF TypeOK
  <1>5. Reading => pos \in 1..Len(tags)
    BY <1>4 DEF Reading
  <1>6. Reading => tag \in Tag /\ tag \in Seq(Char)
    BY <1>1, <1>5 DEF tag
  <1>7. QED
    BY <1>1, <1>2, <1>3, <1>4, <1>5, <1>6

LEMMA Tokens ==
    ASSUME NEW token \in calverTokens
    PROVE  /\ token.name \in Names /\ token.width \in Nat /\ token.strict \in BOOLEAN
           /\ token # NoToken
  <1>1. \A name, width, strict : /\ Token(name, width, strict).name = name
                                 /\ Token(name, width, strict).width = width
                                 /\ Token(name, width, strict).strict = strict
    BY DEF Token
  <1>2. \A name \in Names, width \in Nat, strict \in BOOLEAN :
           token = Token(name, width, strict) =>
              token.name \in Names /\ token.width \in Nat /\ token.strict \in BOOLEAN
    BY <1>1
  <1>3. \E name \in Names, width \in Nat, strict \in BOOLEAN : token = Token(name, width, strict)
    <2>1. {"year", "month", "day", "micro"} = Names /\ 0 \in Nat /\ 2 \in Nat /\ 4 \in Nat
      BY DEF Names
    <2>2. QED
      BY <2>1, Zenon DEF calverTokens
  <1>4. NoToken.name \notin Names
    <2>1. NoToken.name = "none"
      BY DEF NoToken, Token
    <2>2. "none" \notin {"year", "month", "day", "micro"}
      OBVIOUS
    <2>3. QED
      BY <2>1, <2>2, Zenon DEF Names
  <1>5. QED
    BY <1>2, <1>3, <1>4

LEMMA Segments ==
    ASSUME NEW lay, WellFormed(lay), NEW k \in DOMAIN lay
    PROVE  /\ Literal(lay[k]) => lay[k].literal \in Seq(Char) \ {<< >>}
           /\ ~Literal(lay[k]) => lay[k].token \in calverTokens
  <1>1. IsLiteral(lay[k]) \/ IsToken(lay[k])
    BY DEF WellFormed
  <1>2. QED
    BY <1>1, Tokens DEF IsLiteral, IsToken, Literal

(* A part of a text.                                                         *)
LEMMA Piece ==
    ASSUME NEW S, NEW t \in Seq(S), NEW a \in Nat, NEW b \in Nat, a <= b, b <= Len(t)
    PROVE  /\ SubSeq(t, a + 1, b) \in Seq(S)
           /\ Len(SubSeq(t, a + 1, b)) = b - a
           /\ DOMAIN SubSeq(t, a + 1, b) = 1..(b - a)
           /\ \A x \in 1..(b - a) : SubSeq(t, a + 1, b)[x] = t[a + x]
  OBVIOUS

LEMMA NumericText ==
    ASSUME NEW text \in Seq(Char), Numeric(text)
    PROVE  text \in Seq(Digit) /\ text # << >>
  BY DEF Numeric

-----------------------------------------------------------------------------
(* The cuts of a tag.                                                        *)
LEMMA BlankText == Blank \in [Names -> Seq(Digit)] /\ Blank \in [Names -> Seq(Char)]
  BY DEF Blank

LEMMA StartIsCut == Start \in Cut /\ Start.end = 0 /\ Start.text = Blank
  BY BlankText DEF Start, Cut

LEMMA LongerCuts ==
    ASSUME NEW lay, WellFormed(lay), NEW t \in Seq(Char), NEW r \in Cut, NEW k \in DOMAIN lay
    PROVE  Longer(lay, t, r, k) \subseteq Cut
  <1> SUFFICES ASSUME NEW x \in r.end..Len(t)
               PROVE  [end  |-> x,
                       text |-> IF Literal(lay[k]) THEN r.text
                                ELSE [r.text EXCEPT ![lay[k].token.name] = SubSeq(t, r.end + 1, x)]]
                         \in Cut
    BY DEF Longer
  <1>1. r.end \in Nat /\ r.text \in [Names -> Seq(Char)]
    BY DEF Cut
  <1>2. x \in Nat /\ r.end <= x /\ x <= Len(t)
    BY <1>1
  <1>3. SubSeq(t, r.end + 1, x) \in Seq(Char)
    BY <1>1, <1>2, Piece
  <1>4. [r.text EXCEPT ![lay[k].token.name] = SubSeq(t, r.end + 1, x)] \in [Names -> Seq(Char)]
    BY <1>1, <1>3
  <1>5. QED
    BY <1>1, <1>2, <1>4 DEF Cut

LEMMA CutsUnfold ==
    ASSUME NEW lay, WellFormed(lay), NEW t \in Seq(Char)
    PROVE  /\ Cuts(lay, t)[0] = {Start}
           /\ \A k \in 1..Len(lay) :
                 Cuts(lay, t)[k] = UNION {Longer(lay, t, r, k) : r \in Cuts(lay, t)[k - 1]}
           /\ \A k \in 0..Len(lay) : Cuts(lay, t)[k] \subseteq Cut
  <1> DEFINE n == Len(lay)
             More(k, x) == UNION {Longer(lay, t, r, k) : r \in x}
             X == SUBSET Cut
             under == [k \in 1..n |-> [x \in X |-> More(k, x)]]
             Solves(w) == w = [k \in 0..Len(lay) |-> IF k = 0 THEN {Start} ELSE More(k, w[k - 1])]
             cuts == CHOOSE w : Solves(w)
  <1>1. n \in Nat /\ DOMAIN lay = 1..n
    BY DEF WellFormed
  <1>2. \A k \in 1..n : \A x \in X : More(k, x) \in X
    <2> SUFFICES ASSUME NEW k \in 1..n, NEW x \in X PROVE More(k, x) \in X
      OBVIOUS
    <2>1. \A r \in x : Longer(lay, t, r, k) \subseteq Cut
      BY <1>1, LongerCuts
    <2>2. QED
      BY <2>1
  <1>3. under \in [1..n -> [X -> X]] /\ {Start} \in X
    <2>1. {Start} \in X
      BY StartIsCut
    <2> HIDE DEF More, X
    <2>2. QED
      BY <1>2, <2>1
  <1>4. PICK w : Iterates(w, n, X, {Start}, under)
    <2> HIDE DEF n, X, under
    <2>1. QED
      BY <1>1, <1>3, IterationExists, Zenon
  <1>5. \A k \in 1..n : w[k] = More(k, w[k - 1])
    <2> SUFFICES ASSUME NEW k \in 1..n PROVE w[k] = More(k, w[k - 1])
      OBVIOUS
    <2>1. k - 1 \in 0..n
      BY <1>1
    <2>2. w[k - 1] \in X
      BY <1>4, <2>1 DEF Iterates
    <2>3. under[k][w[k - 1]] = More(k, w[k - 1])
      <3> HIDE DEF X, More, n
      <3>1. QED
        BY <2>2
    <2>4. QED
      BY <1>4, <2>3 DEF Iterates
  <1>6. Solves(w)
    <2> HIDE DEF More, X
    <2>1. \A k \in 0..n : k # 0 => k \in 1..n
      BY <1>1
    <2>2. QED
      BY <1>1, <1>4, <1>5, <2>1 DEF Iterates
  <1>7. Solves(cuts)
    BY <1>6, Zenon
  <1>8. Cuts(lay, t) = cuts
    BY Zenon DEF Cuts
  <1>9. \A k \in 0..n : cuts[k] = IF k = 0 THEN {Start} ELSE More(k, cuts[k - 1])
    <2> DEFINE h == [k \in 0..Len(lay) |-> IF k = 0 THEN {Start} ELSE More(k, cuts[k - 1])]
    <2>1. cuts = h
      BY <1>7, Zenon
    <2> HIDE DEF cuts, More
    <2>2. \A k \in 0..n : h[k] = IF k = 0 THEN {Start} ELSE More(k, cuts[k - 1])
      BY <1>1
    <2>3. QED
      BY <2>1, <2>2, Zenon
  <1> HIDE DEF cuts
  <1>10. 0 \in 0..n /\ \A k \in 1..n : k \in 0..n /\ k # 0
    BY <1>1
  <1>11. \A k \in 1..n : cuts[k] = More(k, cuts[k - 1])
    BY <1>9, <1>10
  <1>12. cuts[0] = {Start}
    BY <1>9, <1>10
  <1>13. \A k \in 0..n : cuts[k] \in X
    <2> DEFINE Bad == {k \in 0..n : cuts[k] \notin X}
    <2> SUFFICES ASSUME Bad # {} PROVE FALSE
      OBVIOUS
    <2>1. PICK k \in Bad : \A h \in Bad : k <= h
      <3>1. Bad \in SUBSET Nat
        BY <1>1
      <3>2. QED
        BY <3>1, LeastNatural
    <2>2. k \in 0..n /\ cuts[k] \notin X
      OBVIOUS
    <2>3. k # 0
      BY <1>3, <1>12, <2>2
    <2>4. k \in 1..n /\ k - 1 \in 0..n /\ ~(k <= k - 1)
      BY <1>1, <2>2, <2>3
    <2>5. cuts[k - 1] \in X
      BY <2>1, <2>4
    <2> HIDE DEF Bad, X, More
    <2>6. QED
      BY <1>2, <1>11, <2>2, <2>4, <2>5
  <1>14. QED
    BY <1>8, <1>11, <1>12, <1>13

(* The way to a cut, one segment after the other.                            *)
IsChain(lay, t, ch, n) ==
    /\ ch \in [0..n -> Cut]
    /\ ch[0] = Start
    /\ \A k \in 1..n : ch[k] \in Longer(lay, t, ch[k - 1], k)

LEMMA CutHasChain ==
    ASSUME NEW lay, WellFormed(lay), NEW t \in Seq(Char)
    PROVE  \A n \in 0..Len(lay) : \A c \in Cuts(lay, t)[n] :
              \E ch : IsChain(lay, t, ch, n) /\ ch[n] = c
  <1> DEFINE Reached(n, c) == \E ch : IsChain(lay, t, ch, n) /\ ch[n] = c
             Bad == {n \in 0..Len(lay) : \E c \in Cuts(lay, t)[n] : ~Reached(n, c)}
  <1> SUFFICES ASSUME Bad # {} PROVE FALSE
    OBVIOUS
  <1>0. Len(lay) \in Nat
    BY DEF WellFormed
  <1>1. PICK n \in Bad : \A h \in Bad : n <= h
    <2>1. Bad \in SUBSET Nat
      BY <1>0
    <2>2. QED
      BY <2>1, LeastNatural
  <1>2. PICK c \in Cuts(lay, t)[n] : ~Reached(n, c)
    OBVIOUS
  <1>3. n \in 0..Len(lay) /\ n \in Nat
    BY <1>0
  <1>4. CASE n = 0
    <2> DEFINE ch == [k \in 0..0 |-> Start]
    <2>1. c = Start
      BY <1>2, <1>4, CutsUnfold
    <2>2. IsChain(lay, t, ch, 0) /\ ch[0] = Start
      BY StartIsCut DEF IsChain
    <2>3. QED
      BY <1>2, <1>4, <2>1, <2>2
  <1>5. CASE n # 0
    <2>1. n \in 1..Len(lay) /\ n - 1 \in 0..Len(lay) /\ ~(n <= n - 1)
      BY <1>0, <1>3, <1>5
    <2>2. PICK r \in Cuts(lay, t)[n - 1] : c \in Longer(lay, t, r, n)
      BY <1>2, <2>1, CutsUnfold
    <2>3. PICK ch : IsChain(lay, t, ch, n - 1) /\ ch[n - 1] = r
      BY <1>1, <2>1, <2>2
    <2>4. c \in Cut
      BY <1>2, <1>3, CutsUnfold
    <2> DEFINE dh == [k \in 0..n |-> IF k = n THEN c ELSE ch[k]]
    <2>5. dh \in [0..n -> Cut]
      <3>1. \A k \in 0..n : k # n => k \in 0..(n - 1)
        BY <1>3
      <3>2. QED
        BY <2>3, <2>4, <3>1 DEF IsChain
    <2>6. dh[0] = Start /\ dh[n] = c
      BY <1>3, <1>5, <2>3 DEF IsChain
    <2>7. ASSUME NEW k \in 1..n PROVE dh[k] \in Longer(lay, t, dh[k - 1], k)
      <3>1. dh[k - 1] = ch[k - 1]
        BY <1>3
      <3>2. CASE k = n
        BY <2>2, <2>3, <2>6, <3>1, <3>2
      <3>3. CASE k # n
        <4>1. k \in 1..(n - 1) /\ dh[k] = ch[k]
          BY <1>3, <3>3
        <4> HIDE DEF dh
        <4>2. QED
          BY <2>3, <3>1, <4>1 DEF IsChain
      <3>4. QED
        BY <3>2, <3>3
    <2>8. IsChain(lay, t, dh, n)
      BY <2>5, <2>6, <2>7 DEF IsChain
    <2>9. QED
      BY <1>2, <2>6, <2>8
  <1>6. QED
    BY <1>4, <1>5

-----------------------------------------------------------------------------
(* What the scan reads of a segment is a piece of the tag that fits it.      *)
LEMMA ScanFits ==
    ASSUME TypeOK, Reading, si <= Len(layout), NEW end \in SegmentEnd
    PROVE  /\ end \in i..Len(tag)
           /\ Fits(layout, si, SubSeq(tag, i + 1, end))
           /\ ~Literal(layout[si]) => SubSeq(tag, i + 1, end) \in Seq(Digit)
  <1>1. si \in 1..Len(layout) /\ si \in DOMAIN layout /\ tag \in Seq(Char) /\ Len(tag) \in Nat
    BY Params
  <1>2. i \in 0..Len(tag) /\ i \in Nat
    BY <1>1 DEF TypeOK
  <1>3. CASE Literal(layout[si])
    <2> DEFINE lit == layout[si].literal
    <2>1. lit \in Seq(Char) /\ Len(lit) \in Nat
      BY <1>1, <1>3, Params, Segments
    <2>2. end = i + Len(lit) /\ OccursAt(lit, i)
      BY <1>3 DEF SegmentEnd
    <2>3. QED
      BY <1>1, <1>2, <1>3, <2>1, <2>2 DEF OccursAt, Fits
  <1>4. CASE ~Literal(layout[si])
    <2> DEFINE token == layout[si].token
               text == SubSeq(tag, i + 1, end)
    <2>1. token \in calverTokens /\ token.width \in Nat /\ token.strict \in BOOLEAN
      BY <1>1, <1>4, Params, Segments, Tokens
    <2>2. end \in TokenEnd /\ end <= Len(tag) /\ Numeric(text)
      BY <1>4 DEF SegmentEnd
    <2>3. end \in Nat
      <3>1. TokenEnd \subseteq Nat
        BY <1>1, <1>2, <2>1 DEF TokenEnd, IndexOf
      <3>2. QED
        BY <2>2, <3>1
    <2>4. i <= end
      <3>1. text # << >>
        BY <2>2 DEF Numeric
      <3>2. CASE end < i
        <4>1. text = << >>
          BY <1>1, <1>2, <2>3, <3>2
        <4>2. QED
          BY <3>1, <4>1
      <3>3. QED
        BY <1>2, <2>3, <3>2
    <2>5. text \in Seq(Char) /\ Len(text) = end - i
      BY <1>1, <1>2, <2>2, <2>3, <2>4, Piece
    <2>6. text \in Seq(Digit)
      BY <2>2, <2>5, NumericText
    <2>7. (token.strict \/ (si < Len(layout) /\ ~Literal(layout[si + 1]))) => Len(text) = token.width
      <3>1. token.strict \/ (si < Len(layout) /\ ~Literal(layout[si + 1])) => end = i + token.width
        BY <1>1, <2>2 DEF TokenEnd
      <3>2. QED
        BY <1>2, <2>1, <2>5, <3>1
    <2>8. QED
      BY <1>1, <1>2, <1>4, <2>2, <2>3, <2>4, <2>6, <2>7 DEF Fits
  <1>5. QED
    BY <1>3, <1>4

(* Where literals begin with a mark, a piece that fits and is followed by    *)
(* what the layout asks for is what the scan finds.                          *)
Followed(x) ==
    /\ si = Len(layout) => x = Len(tag)
    /\ si < Len(layout) /\ Literal(layout[si + 1]) => OccursAt(layout[si + 1].literal, x)

LEMMA ScanFinds ==
    ASSUME TypeOK, Reading, Plain, si <= Len(layout), NEW x \in i..Len(tag),
           Fits(layout, si, SubSeq(tag, i + 1, x)), Followed(x)
    PROVE  SegmentEnd = {x}
  <1>1. si \in 1..Len(layout) /\ si \in DOMAIN layout /\ tag \in Seq(Char) /\ Len(tag) \in Nat
    BY Params
  <1>2. i \in 0..Len(tag) /\ i \in Nat /\ x \in Nat /\ i <= x /\ x <= Len(tag)
    BY <1>1 DEF TypeOK
  <1> DEFINE text == SubSeq(tag, i + 1, x)
  <1>3. /\ text \in Seq(Char) /\ Len(text) = x - i /\ DOMAIN text = 1..(x - i)
        /\ \A y \in 1..(x - i) : text[y] = tag[i + y]
    BY <1>1, <1>2, Piece
  <1>4. CASE Literal(layout[si])
    <2> DEFINE lit == layout[si].literal
    <2>1. text = lit
      BY <1>4 DEF Fits
    <2>2. Len(text) = x - i /\ text = SubSeq(tag, i + 1, x)
      BY <1>3
    <2> HIDE DEF text, lit
    <2>3. x = i + Len(lit)
      BY <1>2, <2>1, <2>2
    <2>4. OccursAt(lit, i)
      BY <1>2, <2>1, <2>2, <2>3 DEF OccursAt
    <2>5. QED
      BY <1>4, <2>3, <2>4 DEF SegmentEnd, lit
  <1>5. CASE ~Literal(layout[si])
    <2> DEFINE token == layout[si].token
    <2>1. token \in calverTokens /\ token.width \in Nat /\ token.strict \in BOOLEAN
      BY <1>1, <1>5, Params, Segments, Tokens
    <2>2. /\ Numeric(text)
          /\ (token.strict \/ (si < Len(layout) /\ ~Literal(layout[si + 1]))) =>
                Len(text) = token.width
      BY <1>5 DEF Fits
    <2>3. TokenEnd = {x}
      <3>1. CASE token.strict \/ (si < Len(layout) /\ ~Literal(layout[si + 1]))
        <4>1. i + token.width = x
          <5>1. Len(text) = token.width
            BY <2>2, <3>1
          <5> HIDE DEF text, token
          <5>2. QED
            BY <1>2, <1>3, <2>1, <5>1
        <4>2. QED
          BY <1>1, <3>1, <4>1 DEF TokenEnd
      <3>2. CASE ~token.strict /\ si = Len(layout)
        BY <3>2 DEF TokenEnd, Followed
      <3>3. CASE ~token.strict /\ si < Len(layout) /\ Literal(layout[si + 1])
        <4> DEFINE lit == layout[si + 1].literal
        <4>1. si + 1 \in DOMAIN layout
          BY <1>1, <3>3, Params
        <4>2. lit \in Seq(Char) /\ lit # << >> /\ Head(lit) \notin Digit
          BY <3>3, <4>1, Params, Segments DEF Plain
        <4>3. OccursAt(lit, x)
          BY <3>3 DEF Followed
        <4>4. ASSUME NEW h \in i..(x - 1), OccursAt(lit, h) PROVE FALSE
          <5>1. h \in Nat /\ i <= h /\ h + 1 <= x /\ Len(lit) \in Nat /\ Len(lit) >= 1
            BY <1>2, <4>2
          <5>2. h + Len(lit) <= Len(tag) /\ SubSeq(tag, h + 1, h + Len(lit)) = lit
            BY <4>4 DEF OccursAt
          <5>3. lit[1] = tag[h + 1]
            <6>1. /\ h + Len(lit) \in Nat /\ h <= h + Len(lit)
                  /\ 1 \in 1..(h + Len(lit) - h)
              BY <5>1
            <6> HIDE DEF lit
            <6>2. SubSeq(tag, h + 1, h + Len(lit))[1] = tag[h + 1]
              BY <1>1, <5>1, <5>2, <6>1, Piece
            <6>3. QED
              BY <5>2, <6>2
          <5>4. Head(lit) = lit[1]
            BY <4>2
          <5>5. h + 1 - i \in 1..(x - i) /\ i + (h + 1 - i) = h + 1
            BY <1>2, <5>1
          <5>6. text[h + 1 - i] = tag[h + 1]
            BY <1>3, <5>5
          <5>7. text[h + 1 - i] \in Digit
            BY <1>3, <2>2, <5>5 DEF Numeric
          <5>8. QED
            BY <4>2, <5>3, <5>4, <5>6, <5>7
        <4>5. x \in IndexOf(lit)
          BY <4>3, <4>4 DEF IndexOf
        <4>6. ASSUME NEW h \in IndexOf(lit) PROVE h = x
          <5>1. h \in i..Len(tag) /\ OccursAt(lit, h) /\ \A y \in i..(h - 1) : ~OccursAt(lit, y)
            BY DEF IndexOf
          <5>2. ~(h < x)
            <6>1. h < x => h \in i..(x - 1)
              BY <1>1, <1>2, <5>1
            <6>2. QED
              BY <4>4, <5>1, <6>1
          <5>3. ~(x < h)
            <6>1. x < h => x \in i..(h - 1)
              BY <1>1, <1>2, <5>1
            <6>2. QED
              BY <4>3, <5>1, <6>1
          <5>4. QED
            BY <1>1, <1>2, <5>1, <5>2, <5>3
        <4>7. IndexOf(lit) = {x}
          BY <4>5, <4>6
        <4>8. TokenEnd = IndexOf(lit)
          BY <1>1, <3>3 DEF TokenEnd
        <4>9. QED
          BY <4>7, <4>8
      <3>4. QED
        BY <1>1, <2>1, <3>1, <3>2, <3>3
    <2>4. QED
      BY <1>2, <1>5, <2>2, <2>3 DEF SegmentEnd
  <1>6. QED
    BY <1>4, <1>5
-----------------------------------------------------------------------------
(* Every way to read the whole of the tag goes through where parse is.       *)
Whole(lay, t, ch) == IsChain(lay, t, ch, Len(lay)) /\ ch[Len(lay)].end = Len(t)

OnlyWay == Plain /\ Reading => \A ch : Whole(layout, tag, ch) => ch[si - 1] = Here

ScanInv == TypeOK /\ OnACut /\ OnlyWay /\ ParsedExact

LEMMA HereIsCut ==
    ASSUME TypeOK, Reading
    PROVE  Here \in Cut /\ Here.end = i /\ Here.text = cv /\ i \in 0..Len(tag) /\ Len(tag) \in Nat
  <1>1. tag \in Seq(Char) /\ Len(tag) \in Nat
    BY Params
  <1>2. i \in 0..Len(tag) /\ i \in Nat /\ cv \in [Names -> Seq(Digit)]
    BY <1>1 DEF TypeOK
  <1>3. cv \in [Names -> Seq(Char)]
    BY <1>2 DEF Char
  <1>4. QED
    BY <1>1, <1>2, <1>3 DEF Here, Cut

(* The next step of such a way is the segment's only end.                    *)
LEMMA WayGoesOn ==
    ASSUME ScanInv, Reading, Plain, si <= Len(layout), NEW ch, Whole(layout, tag, ch)
    PROVE  /\ SegmentEnd = {ch[si].end}
           /\ ch[si].text = IF Literal(layout[si]) THEN cv
                            ELSE [cv EXCEPT ![layout[si].token.name] = SubSeq(tag, i + 1, ch[si].end)]
           /\ ch[si] \in Cut
  <1>1. si \in 1..Len(layout) /\ Len(layout) \in Nat /\ tag \in Seq(Char) /\ Len(tag) \in Nat
    BY Params DEF ScanInv
  <1>2. ch[si - 1] = Here
    BY DEF ScanInv, OnlyWay
  <1>3. Here \in Cut /\ Here.end = i /\ Here.text = cv
    BY HereIsCut DEF ScanInv
  <1>4. ch[si] \in Longer(layout, tag, Here, si) /\ ch[si] \in Cut
    BY <1>1, <1>2 DEF Whole, IsChain
  <1>5. PICK x \in {y \in i..Len(tag) : Fits(layout, si, SubSeq(tag, i + 1, y))} :
           ch[si] = [end  |-> x,
                     text |-> IF Literal(layout[si]) THEN cv
                              ELSE [cv EXCEPT ![layout[si].token.name] = SubSeq(tag, i + 1, x)]]
    BY <1>3, <1>4 DEF Longer
  <1>6. ch[si].end = x
    BY <1>5
  <1>7. Followed(x)
    <2>1. si = Len(layout) => x = Len(tag)
      BY <1>6 DEF Whole
    <2>2. ASSUME si < Len(layout), Literal(layout[si + 1])
          PROVE  OccursAt(layout[si + 1].literal, x)
      <3>1. si + 1 \in 1..Len(layout) /\ si + 1 \in DOMAIN layout /\ si + 1 - 1 = si
        BY <1>1, <2>2, Params DEF ScanInv
      <3> DEFINE lit == layout[si + 1].literal
      <3>2. ch[si + 1] \in Longer(layout, tag, ch[si], si + 1)
        <4>1. \A k \in 1..Len(layout) : ch[k] \in Longer(layout, tag, ch[k - 1], k)
          BY DEF Whole, IsChain
        <4>2. PICK k \in 1..Len(layout) : k = si + 1 /\ k - 1 = si
          BY <1>1, <3>1
        <4>3. ch[k] \in Longer(layout, tag, ch[k - 1], k)
          BY <4>1
        <4>4. QED
          BY <4>2, <4>3
      <3>3. PICK y \in x..Len(tag) : Fits(layout, si + 1, SubSeq(tag, x + 1, y))
        BY <1>6, <3>2 DEF Longer
      <3>4. SubSeq(tag, x + 1, y) = lit
        BY <2>2, <3>3 DEF Fits
      <3>5. x \in Nat /\ y \in Nat /\ x <= y /\ y <= Len(tag)
        BY <1>1, <1>3, <1>5, <3>3 DEF Cut
      <3>6. Len(lit) = y - x
        BY <1>1, <3>4, <3>5, Piece
      <3>7. y = x + Len(lit)
        BY <3>5, <3>6
      <3>8. QED
        BY <3>4, <3>5, <3>7 DEF OccursAt
    <2>3. QED
      BY <2>1, <2>2 DEF Followed
  <1>8. SegmentEnd = {x}
    BY <1>5, <1>7, ScanFinds DEF ScanInv
  <1>9. QED
    BY <1>4, <1>5, <1>6, <1>8

(* A reading of the tag is where some way through all the segments ends.     *)
LEMMA ReadingHasWay ==
    ASSUME TypeOK, Reading, NEW r \in Readings(layout, tag)
    PROVE  \E ch : Whole(layout, tag, ch) /\ ch[Len(layout)].text = r
  <1>1. WellFormed(layout) /\ tag \in Seq(Char) /\ Len(layout) \in 0..Len(layout)
    BY Params
  <1>2. PICK c \in Cuts(layout, tag)[Len(layout)] : c.end = Len(tag) /\ r = c.text
    BY DEF Readings
  <1>3. PICK ch : IsChain(layout, tag, ch, Len(layout)) /\ ch[Len(layout)] = c
    BY <1>1, CutHasChain
  <1>4. QED
    BY <1>2, <1>3 DEF Whole

(* What the loop over the tags knows when it is done with one.               *)
LEMMA TagDone ==
    ASSUME ScanInv, Reading
    PROVE  /\ Matches => cv \in Readings(layout, tag)
           /\ Plain /\ Matches => Readings(layout, tag) \subseteq {cv}
           /\ Plain /\ (IF si <= Len(layout) THEN SegmentEnd = {} ELSE i # Len(tag))
                 => Readings(layout, tag) = {}
  <1>1. TypeOK /\ si \in 1..(Len(layout) + 1) /\ Len(layout) \in Nat
    BY Params DEF ScanInv
  <1>2. Here.end = i /\ Here.text = cv
    BY DEF Here
  <1>3. Matches => cv \in Readings(layout, tag)
    <2> SUFFICES ASSUME Matches PROVE cv \in Readings(layout, tag)
      OBVIOUS
    <2>1. si - 1 = Len(layout) /\ i = Len(tag)
      BY <1>1 DEF Matches
    <2>2. Here \in Cuts(layout, tag)[Len(layout)]
      BY <2>1 DEF ScanInv, OnACut
    <2>3. QED
      BY <1>2, <2>1, <2>2 DEF Readings
  <1>4. ASSUME Plain, si > Len(layout), NEW ch, Whole(layout, tag, ch)
        PROVE  ch[Len(layout)].text = cv /\ i = Len(tag)
    <2>1. si - 1 = Len(layout)
      BY <1>1, <1>4
    <2>2. ch[Len(layout)] = Here
      BY <1>4, <2>1 DEF ScanInv, OnlyWay
    <2>3. QED
      BY <1>2, <1>4, <2>2 DEF Whole
  <1>5. ASSUME Plain, si <= Len(layout), NEW ch, Whole(layout, tag, ch)
        PROVE  SegmentEnd # {}
    BY <1>5, WayGoesOn
  <1>6. Plain /\ Matches => Readings(layout, tag) \subseteq {cv}
    BY <1>1, <1>4, ReadingHasWay DEF Matches
  <1>7. Plain /\ (IF si <= Len(layout) THEN SegmentEnd = {} ELSE i # Len(tag))
           => Readings(layout, tag) = {}
    BY <1>1, <1>4, <1>5, ReadingHasWay
  <1>8. QED
    BY <1>3, <1>6, <1>7

LEMMA ScanInvInit == Init => ScanInv /\ Sorted
  <1> SUFFICES ASSUME Init PROVE ScanInv /\ Sorted
    OBVIOUS
  <1>1. tags \in Seq(Tag) /\ WellFormed(layout) /\ Tag \subseteq Seq(Char)
    BY CalverAssumption DEF Init
  <1>2. Len(tags) \in Nat /\ Len(layout) \in Nat
    BY <1>1 DEF WellFormed
  <1>3. versions = << >> /\ out = << >> /\ pos = 1 /\ si = 1 /\ i = 0 /\ cv = Blank /\ done = FALSE
    BY DEF Init
  <1>4. Reading => tag \in Seq(Char)
    BY <1>1, <1>2, <1>3 DEF Reading, tag
  <1>5. TypeOK
    <2>1. pos \in 1..(Len(tags) + 1) /\ si \in 1..(Len(layout) + 1)
      BY <1>2, <1>3
    <2>2. i \in 0..(IF Reading THEN Len(tag) ELSE 0)
      BY <1>3, <1>4
    <2>3. versions \in Seq(Version) /\ out \in Seq(DOMAIN versions) /\ done \in BOOLEAN
      <3>1. \A S : << >> \in Seq(S)
        OBVIOUS
      <3>2. QED
        BY <1>3, <3>1
    <2>4. QED
      BY <1>3, <2>1, <2>2, <2>3, BlankText DEF Init, TypeOK
  <1>6. Here = Start /\ si - 1 = 0
    BY <1>3 DEF Here, Start
  <1>7. OnACut
    BY <1>1, <1>4, <1>6, CutsUnfold DEF OnACut
  <1>8. OnlyWay
    BY <1>6 DEF OnlyWay, Whole, IsChain
  <1>9. ParsedExact
    BY <1>3 DEF ParsedExact, Kept, Expected
  <1>10. Sorted
    <2>1. DOMAIN out = {} /\ Len(out) = 0 /\ last \in Int
      BY <1>3, CalverAssumption DEF Init
    <2>2. QED
      BY <1>3, <2>1 DEF Sorted
  <1>11. QED
    BY <1>5, <1>7, <1>8, <1>9, <1>10 DEF ScanInv

LEMMA ScanInvReadSegment ==
    ASSUME ScanInv, Sorted, ReadSegment
    PROVE  ScanInv' /\ Sorted'
  <1>1. Reading /\ si <= Len(layout) /\ si' = si + 1
        /\ UNCHANGED << selector, pos, versions, out, done >>
    BY DEF ReadSegment
  <1>2. PICK end \in SegmentEnd :
           /\ cv' = IF Literal(layout[si]) THEN cv
                    ELSE [cv EXCEPT ![layout[si].token.name] = SubSeq(tag, i + 1, end)]
           /\ i' = end
    BY DEF ReadSegment
  <1>3. TypeOK /\ si \in 1..Len(layout) /\ Len(layout) \in Nat /\ tag \in Seq(Char)
        /\ WellFormed(layout)
    BY <1>1, Params DEF ScanInv
  <1>4. /\ end \in i..Len(tag) /\ Fits(layout, si, SubSeq(tag, i + 1, end))
        /\ ~Literal(layout[si]) => SubSeq(tag, i + 1, end) \in Seq(Digit)
    BY <1>1, <1>2, <1>3, ScanFits
  <1>5. tags' = tags /\ layout' = layout /\ where' = where /\ last' = last /\ pos' = pos
        /\ tag' = tag /\ (Reading' <=> Reading)
    BY <1>1 DEF selector, tag, Reading
  <1>6. Here \in Cut /\ Here.end = i /\ Here.text = cv /\ i \in 0..Len(tag) /\ Len(tag) \in Nat
    BY <1>1, <1>3, HereIsCut
  <1>7. cv' \in [Names -> Seq(Digit)]
    BY <1>2, <1>3, <1>4 DEF TypeOK
  <1>8. TypeOK'
    <2>1. si' \in 1..(Len(layout') + 1) /\ i' \in 0..(IF Reading' THEN Len(tag') ELSE 0)
      BY <1>1, <1>2, <1>3, <1>4, <1>5, <1>6
    <2>2. QED
      BY <1>1, <1>3, <1>5, <1>7, <2>1 DEF TypeOK
  <1>9. Here' \in Longer(layout, tag, Here, si)
    BY <1>2, <1>4, <1>6 DEF Here, Longer
  <1>10. OnACut'
    <2>1. Here \in Cuts(layout, tag)[si - 1]
      BY <1>1 DEF ScanInv, OnACut
    <2>2. Here' \in Cuts(layout, tag)[si]
      BY <1>3, <1>9, <2>1, CutsUnfold
    <2>3. si' - 1 = si
      BY <1>1, <1>3
    <2>4. QED
      BY <1>5, <2>2, <2>3 DEF OnACut
  <1>11. OnlyWay'
    <2> SUFFICES ASSUME Plain, NEW ch, Whole(layout, tag, ch)
                 PROVE  ch[si' - 1] = Here'
      BY <1>5 DEF OnlyWay, Plain
    <2>1. /\ SegmentEnd = {ch[si].end}
          /\ ch[si].text = IF Literal(layout[si]) THEN cv
                           ELSE [cv EXCEPT ![layout[si].token.name] = SubSeq(tag, i + 1, ch[si].end)]
          /\ ch[si] \in Cut
      BY <1>1, WayGoesOn
    <2>2. end = ch[si].end
      BY <2>1
    <2>3. ch[si].end = i' /\ ch[si].text = cv'
      BY <1>2, <2>1, <2>2
    <2>4. ch[si] = Here'
      BY <2>1, <2>3 DEF Here, Cut
    <2>5. si' - 1 = si
      BY <1>1, <1>3
    <2>6. QED
      BY <2>4, <2>5
  <1>12. ParsedExact'
    <2>1. Kept' = Kept /\ (Plain' <=> Plain)
      BY <1>1, <1>5 DEF Kept, Plain
    <2>2. Expected' = Expected
      BY <1>5 DEF Expected, Allowed
    <2>3. QED
      BY <2>1, <2>2 DEF ScanInv, ParsedExact
  <1>13. Sorted'
    BY <1>1, <1>5 DEF Sorted, Left, Full, Newer
  <1>14. QED
    BY <1>8, <1>10, <1>11, <1>12, <1>13 DEF ScanInv

(* Going on to the next tag, with what is kept of this one.                  *)
LEMMA NextTagStarts ==
    ASSUME ScanInv, Sorted, Reading, NextTag,
           UNCHANGED << selector, out, done >>, versions' \in Seq(Version)
    PROVE  /\ TypeOK' /\ OnACut' /\ OnlyWay' /\ Sorted'
           /\ Expected' = Expected \cup
                 {[tag |-> tag, text |-> r] : r \in {q \in Readings(layout, tag) : Allowed(q)}}
           /\ Plain' <=> Plain
  <1>1. TypeOK /\ tags \in Seq(Tag) /\ Len(tags) \in Nat /\ Len(layout) \in Nat /\ WellFormed(layout)
        /\ pos \in 1..Len(tags) /\ Tag \subseteq Seq(Char)
    BY Params DEF ScanInv
  <1>2. tags' = tags /\ layout' = layout /\ where' = where /\ last' = last /\ out' = out /\ done' = done
    BY DEF selector
  <1>3. pos' = pos + 1 /\ si' = 1 /\ i' = 0 /\ cv' = Blank
    BY DEF NextTag
  <1>4. Reading' => tag' \in Seq(Char)
    BY <1>1, <1>2, <1>3 DEF Reading, tag
  <1>5. out = << >>
    BY DEF Sorted
  <1>6. TypeOK'
    <2>1. pos' \in 1..(Len(tags') + 1) /\ si' \in 1..(Len(layout') + 1)
      BY <1>1, <1>2, <1>3
    <2>2. i' \in 0..(IF Reading' THEN Len(tag') ELSE 0)
      BY <1>3, <1>4
    <2>3. out' \in Seq(DOMAIN versions')
      BY <1>2, <1>5
    <2>4. tags' \in Listings /\ layout' \in Layouts /\ where' \in Filters /\ last' \in Lasts
          /\ done' \in BOOLEAN
      BY <1>1, <1>2 DEF TypeOK
    <2>5. QED
      BY <1>3, <2>1, <2>2, <2>3, <2>4, BlankText, Zenon DEF TypeOK
  <1>7. Here' = Start /\ si' - 1 = 0
    BY <1>3 DEF Here, Start
  <1>8. OnACut'
    BY <1>1, <1>2, <1>4, <1>7, CutsUnfold DEF OnACut
  <1>9. OnlyWay'
    BY <1>7 DEF OnlyWay, Whole, IsChain
  <1>10. Sorted'
    <2>1. ~done
      BY DEF Sorted
    <2>2. DOMAIN out' = {} /\ Len(out') = 0
      BY <1>2, <1>5
    <2>3. last' \in Int
      BY <1>2, Params DEF ScanInv
    <2>4. QED
      BY <1>2, <1>5, <2>1, <2>2, <2>3 DEF Sorted
  <1>11. Expected' = Expected \cup
            {[tag |-> tag, text |-> r] : r \in {q \in Readings(layout, tag) : Allowed(q)}}
    <2> DEFINE Of(x) == {[tag |-> tags[x], text |-> r] :
                            r \in {q \in Readings(layout, tags[x]) : Allowed(q)}}
    <2>1. Expected = UNION {Of(x) : x \in 1..(pos - 1)}
      BY DEF Expected
    <2>2. Expected' = UNION {Of(x) : x \in 1..(pos' - 1)}
      BY <1>2 DEF Expected, Allowed
    <2>3. 1..(pos' - 1) = 1..(pos - 1) \cup {pos}
      BY <1>1, <1>3
    <2> HIDE DEF Of
    <2>4. Expected' = Expected \cup Of(pos)
      BY <2>1, <2>2, <2>3
    <2>5. QED
      BY <2>4 DEF Of, tag
  <1>12. Plain' <=> Plain
    BY <1>2 DEF Plain
  <1>13. QED
    BY <1>6, <1>8, <1>9, <1>10, <1>11, <1>12

LEMMA ScanInvPass ==
    ASSUME ScanInv, Sorted, Mismatch \/ Filtered
    PROVE  ScanInv' /\ Sorted'
  <1>1. Reading /\ NextTag /\ UNCHANGED << selector, versions, out, done >>
    BY DEF Mismatch, Filtered, Matches
  <1>2. versions \in Seq(Version)
    BY DEF ScanInv, TypeOK
  <1>3. /\ TypeOK' /\ OnACut' /\ OnlyWay' /\ Sorted'
        /\ Expected' = Expected \cup
              {[tag |-> tag, text |-> r] : r \in {q \in Readings(layout, tag) : Allowed(q)}}
        /\ Plain' <=> Plain
    BY <1>1, <1>2, NextTagStarts
  <1>4. Kept' = Kept
    BY <1>1 DEF Kept
  <1>5. Plain => {q \in Readings(layout, tag) : Allowed(q)} = {}
    <2>1. CASE Mismatch
      BY <1>1, <2>1, TagDone DEF Mismatch
    <2>2. CASE Filtered
      BY <1>1, <2>2, TagDone DEF Filtered
    <2>3. QED
      BY <2>1, <2>2
  <1>6. ParsedExact'
    BY <1>3, <1>4, <1>5 DEF ScanInv, ParsedExact
  <1>7. QED
    BY <1>3, <1>6 DEF ScanInv

LEMMA ScanInvKeep ==
    ASSUME ScanInv, Sorted, Keep
    PROVE  ScanInv' /\ Sorted'
  <1> DEFINE v == [tag |-> tag, text |-> cv]
  <1>1. Reading /\ Matches /\ Allowed(cv) /\ NextTag /\ UNCHANGED << selector, out, done >>
        /\ versions' = Append(versions, v)
    BY DEF Keep, Matches
  <1>2. versions \in Seq(Version) /\ v \in Version
    BY <1>1, Params DEF ScanInv, TypeOK, Version
  <1>3. versions' \in Seq(Version) /\ Kept' = Kept \cup {v}
    <2> HIDE DEF v
    <2>1. QED
      BY <1>1, <1>2, AppendRange DEF Kept
  <1>4. /\ TypeOK' /\ OnACut' /\ OnlyWay' /\ Sorted'
        /\ Expected' = Expected \cup
              {[tag |-> tag, text |-> r] : r \in {q \in Readings(layout, tag) : Allowed(q)}}
        /\ Plain' <=> Plain
    BY <1>1, <1>3, NextTagStarts
  <1>5. cv \in Readings(layout, tag) /\ (Plain => Readings(layout, tag) \subseteq {cv})
    BY <1>1, TagDone
  <1>6. v \in {[tag |-> tag, text |-> r] : r \in {q \in Readings(layout, tag) : Allowed(q)}}
    BY <1>1, <1>5
  <1>7. Plain => {[tag |-> tag, text |-> r] : r \in {q \in Readings(layout, tag) : Allowed(q)}} \subseteq {v}
    BY <1>5
  <1> HIDE DEF v
  <1>8. ParsedExact'
    BY <1>3, <1>4, <1>6, <1>7 DEF ScanInv, ParsedExact
  <1>9. QED
    BY <1>4, <1>8 DEF ScanInv

LEMMA ScanInvTake ==
    ASSUME ScanInv, Sorted, Take
    PROVE  ScanInv' /\ Sorted'
  <1>1. PICK k \in Left : /\ \A h \in Left : ~Newer(versions[h], versions[k])
                          /\ out' = Append(out, k)
    BY DEF Take
  <1>2. ~Reading /\ ~Full /\ UNCHANGED << selector, pos, si, i, cv, versions, done >>
    BY DEF Take
  <1>3. tags' = tags /\ layout' = layout /\ where' = where /\ last' = last /\ pos' = pos
        /\ ~Reading' /\ versions' = versions
    BY <1>2 DEF selector, Reading
  <1>4. TypeOK /\ out \in Seq(DOMAIN versions) /\ k \in DOMAIN versions /\ last \in Int
    BY Params DEF ScanInv, TypeOK, Left
  <1>5. /\ out' \in Seq(DOMAIN versions) /\ Len(out') = Len(out) + 1
        /\ \A x \in DOMAIN out : x \in DOMAIN out' /\ out'[x] = out[x]
        /\ out'[Len(out) + 1] = k
        /\ \A x \in DOMAIN out' : x \in DOMAIN out \/ x = Len(out) + 1
        /\ {out'[x] : x \in DOMAIN out'} = {out[x] : x \in DOMAIN out} \cup {k}
        /\ DOMAIN out = 1..Len(out) /\ Len(out) \in Nat
    BY <1>1, <1>4, AppendRange
  <1>6. TypeOK'
    BY <1>2, <1>3, <1>4, <1>5 DEF TypeOK
  <1>7. OnACut' /\ OnlyWay' /\ ParsedExact'
    <2>1. OnACut' /\ OnlyWay'
      BY <1>3 DEF OnACut, OnlyWay
    <2>2. ParsedExact'
      BY <1>3 DEF ScanInv, ParsedExact, Kept, Expected, Plain, Allowed
    <2>3. QED
      BY <2>1, <2>2
  <1>8. Left' \subseteq Left
    BY <1>3, <1>5 DEF Left
  <1>9. \A a, b : Newer(a, b)' <=> Newer(a, b)
    BY DEF Newer
  <1>10. Sorted'
    <2>1. \A x, y \in DOMAIN out' : x < y => /\ out'[x] # out'[y]
                                             /\ ~Newer(versions[out'[y]], versions[out'[x]])
      <3> SUFFICES ASSUME NEW x \in DOMAIN out', NEW y \in DOMAIN out', x < y
                   PROVE  /\ out'[x] # out'[y]
                          /\ ~Newer(versions[out'[y]], versions[out'[x]])
        OBVIOUS
      <3>1. x \in DOMAIN out /\ out'[x] = out[x]
        BY <1>4, <1>5
      <3>2. CASE y \in DOMAIN out
        BY <1>5, <3>1, <3>2 DEF Sorted
      <3>3. CASE y = Len(out) + 1
        <4>1. out'[y] = k /\ k \notin {out[z] : z \in DOMAIN out}
          BY <1>5, <3>3 DEF Left
        <4>2. QED
          BY <3>1, <4>1 DEF Sorted
      <3>4. QED
        BY <1>5, <3>2, <3>3
    <2>2. \A h \in Left', x \in DOMAIN out' : ~Newer(versions[h], versions[out'[x]])
      <3> SUFFICES ASSUME NEW h \in Left', NEW x \in DOMAIN out'
                   PROVE  ~Newer(versions[h], versions[out'[x]])
        OBVIOUS
      <3>1. CASE x \in DOMAIN out
        BY <1>5, <1>8, <3>1 DEF Sorted
      <3>2. CASE x = Len(out) + 1
        BY <1>1, <1>5, <1>8, <3>2
      <3>3. QED
        BY <1>5, <3>1, <3>2
    <2>3. last > 0 => Len(out') <= last
      <3>1. last > 0 => Len(out) <= last
        BY DEF Sorted
      <3>2. ~(last > 0 /\ Len(out) = last)
        BY <1>2 DEF Full
      <3>3. last \in Int /\ Len(out) \in Nat /\ Len(out') = Len(out) + 1
        BY <1>4, <1>5
      <3>4. QED
        BY <3>1, <3>2, <3>3
    <2>4. done' => ~Reading' /\ (Full' \/ Left' = {})
      <3>1. Left # {} /\ ~Full
        BY <1>1, <1>2
      <3>2. ~done
        BY <3>1 DEF Sorted
      <3>3. QED
        BY <1>2, <3>2
    <2>5. QED
      BY <1>3, <1>9, <2>1, <2>2, <2>3, <2>4 DEF Sorted
  <1>11. QED
    BY <1>6, <1>7, <1>10 DEF ScanInv

LEMMA ScanInvStays ==
    ASSUME ScanInv, Sorted, UNCHANGED << selector, pos, si, i, cv, versions, out >>,
           done' \in BOOLEAN, done' = done \/ (~Reading /\ (Full \/ Left = {}))
    PROVE  ScanInv' /\ Sorted'
  <1>1. tags' = tags /\ layout' = layout /\ where' = where /\ last' = last /\ pos' = pos
        /\ si' = si /\ i' = i /\ cv' = cv /\ versions' = versions /\ out' = out
        /\ (Reading' <=> Reading) /\ tag' = tag
    BY DEF selector, Reading, tag
  <1>2. TypeOK'
    BY <1>1 DEF ScanInv, TypeOK
  <1>3. OnACut' /\ OnlyWay'
    BY <1>1 DEF ScanInv, OnACut, OnlyWay, Here, Plain
  <1>4. ParsedExact'
    BY <1>1 DEF ScanInv, ParsedExact, Kept, Expected, Plain, Allowed
  <1>5. Sorted'
    BY <1>1 DEF Sorted, Left, Full, Newer
  <1>6. QED
    BY <1>2, <1>3, <1>4, <1>5 DEF ScanInv

LEMMA ScanInvStep == ScanInv /\ Sorted /\ [Next]_vars => ScanInv' /\ Sorted'
  <1> SUFFICES ASSUME ScanInv, Sorted, [Next]_vars PROVE ScanInv' /\ Sorted'
    OBVIOUS
  <1>1. CASE ReadSegment
    BY <1>1, ScanInvReadSegment
  <1>2. CASE Mismatch \/ Filtered
    BY <1>2, ScanInvPass
  <1>3. CASE Keep
    BY <1>3, ScanInvKeep
  <1>4. CASE Take
    BY <1>4, ScanInvTake
  <1>5. CASE Return
    BY <1>5, ScanInvStays DEF Return
  <1>6. CASE UNCHANGED vars
    <2>1. done' = done /\ done \in BOOLEAN /\ UNCHANGED << selector, pos, si, i, cv, versions, out >>
      BY <1>6 DEF vars, selector, ScanInv, TypeOK
    <2>2. QED
      BY <2>1, ScanInvStays
  <1>7. QED
    BY <1>1, <1>2, <1>3, <1>4, <1>5, <1>6 DEF Next

(* For every layout, listing and set of predicates parse is at a cut of the  *)
(* tag, and what is returned so far comes first.                             *)
THEOREM CalverInvariant == Spec => []CalverInv
  <1>1. ScanInv /\ Sorted => CalverInv
    BY DEF ScanInv, CalverInv
  <1>2. QED
    BY <1>1, ScanInvInit, ScanInvStep, PTL DEF Spec

(* The versions kept are those of the tags that can be cut as the layout     *)
(* says, with just the texts of such a cut; and none is passed over when no  *)
(* literal begins with a digit.                                              *)
THEOREM CalverParsedExact == Spec => []ParsedExact
  <1>1. ScanInv => ParsedExact
    BY DEF ScanInv
  <1>2. QED
    BY <1>1, ScanInvInit, ScanInvStep, PTL DEF Spec

LEMMA DoneIsExact == ScanInv /\ Sorted => CalverExact
  <1> SUFFICES ASSUME ScanInv, Sorted, done PROVE CalverExact
    BY DEF CalverExact
  <1> DEFINE Taken == {out[x] : x \in DOMAIN out}
             V == DOMAIN versions
  <1>1. versions \in Seq(Version) /\ out \in Seq(V) /\ last \in Int
    BY Params DEF ScanInv, TypeOK
  <1>2. Len(out) \in Nat /\ DOMAIN out = 1..Len(out) /\ Len(versions) \in Nat /\ V = 1..Len(versions)
    BY <1>1
  <1>3. IsFiniteSet(V) /\ Cardinality(V) = Len(versions)
    BY <1>2, IntervalSize
  <1>4. ASSUME NEW x \in 1..Len(out), NEW y \in 1..Len(out), out[x] = out[y]
        PROVE  x = y
    <2>1. ~(x < y) /\ ~(y < x)
      BY <1>2, <1>4 DEF Sorted
    <2>2. QED
      BY <2>1
  <1>5. IsFiniteSet(Taken) /\ Cardinality(Taken) = Len(out)
    <2> DEFINE I == 1..Len(out)
    <2>1. IsFiniteSet(I) /\ Cardinality(I) = Len(out)
      BY <1>2, IntervalSize
    <2>2. \A x, y \in I : out[x] = out[y] => x = y
      BY <1>4
    <2> HIDE DEF I
    <2>3. IsFiniteSet({out[x] : x \in I}) /\ Cardinality({out[x] : x \in I}) = Len(out)
      BY <2>1, <2>2, DistinctSize
    <2>4. QED
      BY <1>2, <2>3 DEF I
  <1>6. Taken \subseteq V
    BY <1>1
  <1>7. Left = V \ Taken /\ V \cap Taken = Taken
    BY <1>6 DEF Left
  <1>8. IsFiniteSet(Left) /\ Cardinality(Left) = Len(versions) - Len(out)
    <2> HIDE DEF Taken, V
    <2>1. IsFiniteSet(V \ Taken) /\ Cardinality(V \ Taken) = Cardinality(V) - Cardinality(V \cap Taken)
      BY <1>3, FS_Difference
    <2>2. QED
      BY <1>3, <1>5, <1>7, <2>1
  <1>9. Cardinality(Left) \in Nat
    BY <1>8, FS_CardinalityType
  <1>10. Cardinality(Left) = IF last > 0 /\ last < Len(versions) THEN Len(versions) - last ELSE 0
    <2> HIDE DEF Taken, V
    <2>1. CASE Full
      <3>1. last > 0 /\ Len(out) = last
        BY <2>1 DEF Full
      <3>2. QED
        BY <1>1, <1>2, <1>8, <1>9, <3>1
    <2>2. CASE Left = {}
      <3>1. Cardinality(Left) = 0
        BY <2>2, FS_EmptySet
      <3>2. last > 0 => Len(out) <= last
        BY DEF Sorted
      <3>3. QED
        BY <1>1, <1>2, <1>8, <3>1, <3>2
    <2>3. QED
      BY <2>1, <2>2 DEF Sorted
  <1>11. QED
    BY <1>10 DEF CalverExact, Sorted

(* The result is the newest `last` of the versions kept, newest first.       *)
THEOREM CalverNewest == Spec => []CalverExact
  BY ScanInvInit, ScanInvStep, DoneIsExact, PTL DEF Spec
===============================================================================
