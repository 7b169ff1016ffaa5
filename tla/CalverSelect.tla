----------------------------- MODULE CalverSelect -----------------------------
(***************************************************************************)
(* calverSelector.Select: each tag is read along the layout, segment by    *)
(* segment; those that conform and satisfy the predicates are sorted and   *)
(* the newest are returned.  A tag is a sequence of digits (numbers) and   *)
(* other characters (Marks): widths, and where a literal occurs first,     *)
(* decide what is read.                                                    *)
(***************************************************************************)
EXTENDS Integers, Sequences, FiniteSets

LOCAL INSTANCE SequencesExt

CONSTANTS
    Marks,      \* characters that are no digits
    MaxInt,     \* the largest number strconv.Atoi reads
    Tag,        \* tags, each a sequence of characters
    Listings,   \* the tag lists a source may return
    Layouts,    \* layouts as parseLayout returns them
    Filters,    \* what `where` may say, a predicate per component
    Lasts       \* values of `last`

Digit == 0..9
Char == Digit \cup Marks
Names == {"year", "month", "day", "micro"}

Token(name, width, strict) == [name |-> name, width |-> width, strict |-> strict]

calverTokens ==
    {Token("year", 4, TRUE),  Token("year", 2, FALSE),  Token("year", 2, TRUE),
     Token("month", 2, FALSE), Token("month", 2, TRUE),
     Token("day", 2, FALSE),   Token("day", 2, TRUE),
     Token("micro", 0, FALSE)}

NoToken == Token("none", 0, FALSE)

IsLiteral(seg) == seg.token = NoToken /\ seg.literal \in Seq(Char) \ {<< >>}
IsToken(seg) == seg.token \in calverTokens /\ seg.literal = << >>

Segment == [literal : Seq(Char), token : calverTokens \cup {NoToken}]

(* What parseLayout accepts: literals are as long as possible and nothing   *)
(* but a literal follows a token of variable width.  A layout without any   *)
(* token passes.                                                            *)
WellFormed(layout) ==
    /\ layout \in Seq(Segment) \ {<< >>}
    /\ \A k \in DOMAIN layout : IsLiteral(layout[k]) \/ IsToken(layout[k])
    /\ \A k \in 1..(Len(layout) - 1) :
          layout[k].token.width = 0 => IsLiteral(layout[k]) # IsLiteral(layout[k + 1])

(* newCalver: mod is absent or a divisor, not 0, and a remainder.           *)
Predicate == [in : SUBSET Int, mod : {<< >>} \cup ((Int \ {0}) \X Int)]

ASSUME CalverAssumption ==
    /\ Marks \cap Digit = {}
    /\ MaxInt \in Nat
    /\ Tag \subseteq Seq(Char)
    /\ Listings \subseteq Seq(Tag)
    /\ \A layout \in Layouts : WellFormed(layout)
    /\ \A f \in Filters : f \in [Names -> Predicate]
    /\ Lasts \subseteq Int

VARIABLES
    tags,       \* the argument of Select
    layout, where, last,    \* the selector
    pos,        \* position of the loop over tags
    si,         \* parse: the segment to read next, from 1
    i,          \* parse: how many characters are read
    cv,         \* parse: the text of each component, << >> if not read
    versions,   \* the versions kept
    out,        \* those returned, as positions in versions
    done

vars == << tags, layout, where, last, pos, si, i, cv, versions, out, done >>
selector == << tags, layout, where, last >>

Blank == [c \in Names |-> << >>]

Init == /\ tags \in Listings
        /\ layout \in Layouts
        /\ where \in Filters
        /\ last \in Lasts
        /\ pos = 1
        /\ si = 1
        /\ i = 0
        /\ cv = Blank
        /\ versions = << >>
        /\ out = << >>
        /\ done = FALSE
-----------------------------------------------------------------------------
Value(text) == FoldLeft(LAMBDA n, d : 10 * n + d, 0, text)

(* atoiStrict succeeds.                                                     *)
Numeric(text) == /\ text # << >>
                 /\ \A x \in DOMAIN text : text[x] \in Digit
                 /\ Value(text) <= MaxInt

(* In Go the remainder of a number that is not negative does not depend on  *)
(* the divisor's sign.                                                      *)
Abs(n) == IF n < 0 THEN -n ELSE n

(* A component that the layout lacks has the value 0.                       *)
allows(p, v) == /\ p.in # {} => v \in p.in
                /\ p.mod # << >> => v % Abs(p.mod[1]) = p.mod[2]

Allowed(text) == \A c \in Names : allows(where[c], Value(text[c]))

(* a.less(b), the other way round.                                          *)
Newer(a, b) ==
    LET V(v, c) == Value(v.text[c])
        Order == << "year", "month", "day", "micro" >>
    IN  \E k \in DOMAIN Order :
           /\ V(a, Order[k]) > V(b, Order[k])
           /\ \A h \in 1..(k - 1) : V(a, Order[h]) = V(b, Order[h])
-----------------------------------------------------------------------------
tag == tags[pos]
Reading == pos <= Len(tags)
Literal(seg) == seg.token = NoToken

OccursAt(literal, j) == /\ j + Len(literal) <= Len(tag)
                        /\ SubSeq(tag, j + 1, j + Len(literal)) = literal

(* Mutant of IndexOf: strings.LastIndex.                                    *)
LastIndexOf(literal) ==
    {j \in i..Len(tag) : /\ OccursAt(literal, j)
                         /\ \A h \in (j + 1)..Len(tag) : ~OccursAt(literal, h)}

(* strings.Index from i on: nothing or one offset.                          *)
IndexOf(literal) ==
    {j \in i..Len(tag) : /\ OccursAt(literal, j)
                         /\ \A h \in i..(j - 1) : ~OccursAt(literal, h)}

(* Where the text of the token at si ends.                                  *)
TokenEnd ==
    LET token == layout[si].token
    IN  IF token.strict THEN {i + token.width}
        ELSE IF si = Len(layout) THEN {Len(tag)}
        ELSE IF Literal(layout[si + 1]) THEN IndexOf(layout[si + 1].literal)
        ELSE {i + token.width}

(* Where the segment at si ends in tag, if tag conforms there.              *)
SegmentEnd ==
    IF Literal(layout[si])
    THEN {j \in {i + Len(layout[si].literal)} : OccursAt(layout[si].literal, i)}
    ELSE {j \in TokenEnd : j <= Len(tag) /\ Numeric(SubSeq(tag, i + 1, j))}

ReadSegment ==
    /\ Reading
    /\ si <= Len(layout)
    /\ \E end \in SegmentEnd :
          /\ cv' = IF Literal(layout[si]) THEN cv
                   ELSE [cv EXCEPT ![layout[si].token.name] = SubSeq(tag, i + 1, end)]
          /\ i' = end
    /\ si' = si + 1
    /\ UNCHANGED << selector, pos, versions, out, done >>

(* Mutant of NextTag: the offset is not reset.                              *)
NextTagOnly == /\ pos' = pos + 1
               /\ si' = 1
               /\ i' = i
               /\ cv' = Blank

NextTag == /\ pos' = pos + 1
           /\ si' = 1
           /\ i' = 0
           /\ cv' = Blank

(* The tag does not conform to the layout.                                  *)
Mismatch ==
    /\ Reading
    /\ IF si <= Len(layout) THEN SegmentEnd = {} ELSE i # Len(tag)
    /\ NextTag
    /\ UNCHANGED << selector, versions, out, done >>

Matches == /\ Reading
           /\ si > Len(layout)
           /\ i = Len(tag)

Filtered ==
    /\ Matches
    /\ ~Allowed(cv)
    /\ NextTag
    /\ UNCHANGED << selector, versions, out, done >>

Keep ==
    /\ Matches
    /\ Allowed(cv)
    /\ versions' = Append(versions, [tag |-> tag, text |-> cv])
    /\ NextTag
    /\ UNCHANGED << selector, out, done >>

(* Mutant of Full: one version too many.                                    *)
Over == last > 0 /\ Len(out) > last

Full == last > 0 /\ Len(out) = last

Left == DOMAIN versions \ {out[k] : k \in DOMAIN out}

(* sort.Slice is not stable: of equal versions any may come first.          *)
Take ==
    /\ ~Reading
    /\ ~Full
    /\ \E k \in Left : /\ \A h \in Left : ~Newer(versions[h], versions[k])
                       /\ out' = Append(out, k)
    /\ UNCHANGED << selector, pos, si, i, cv, versions, done >>

Return ==
    /\ ~Reading
    /\ ~done
    /\ Full \/ Left = {}
    /\ done' = TRUE
    /\ UNCHANGED << selector, pos, si, i, cv, versions, out >>

Next == ReadSegment \/ Mismatch \/ Filtered \/ Keep \/ Take \/ Return

Spec == Init /\ [][Next]_vars
-----------------------------------------------------------------------------
Version == [tag : Tag, text : [Names -> Seq(Digit)]]

TypeOK ==
    /\ tags \in Listings
    /\ layout \in Layouts
    /\ where \in Filters
    /\ last \in Lasts
    /\ pos \in 1..(Len(tags) + 1)
    /\ si \in 1..(Len(layout) + 1)
    /\ i \in 0..(IF Reading THEN Len(tag) ELSE 0)
    /\ cv \in [Names -> Seq(Digit)]
    /\ versions \in Seq(Version)
    /\ out \in Seq(DOMAIN versions)
    /\ done \in BOOLEAN

(* What it means for a tag to conform, whatever the scanning: it can be cut  *)
(* into one piece per segment, a literal's being that literal, a token's a   *)
(* number - of the token's width, when that is strict or another token       *)
(* follows.  The readings of a tag are the texts its cuts give.              *)
Fits(lay, k, piece) ==
    IF Literal(lay[k]) THEN piece = lay[k].literal
    ELSE /\ Numeric(piece)
         /\ LET token == lay[k].token
            IN  (token.strict \/ (k < Len(lay) /\ ~Literal(lay[k + 1]))) =>
                   Len(piece) = token.width

Cut == [end : Nat, text : [Names -> Seq(Char)]]
Start == [end |-> 0, text |-> Blank]

(* A cut up to a segment, and those it leads to beyond the next one.         *)
Longer(lay, t, r, k) ==
    {[end  |-> j,
      text |-> IF Literal(lay[k]) THEN r.text
               ELSE [r.text EXCEPT ![lay[k].token.name] = SubSeq(t, r.end + 1, j)]] :
        j \in {x \in r.end..Len(t) : Fits(lay, k, SubSeq(t, r.end + 1, x))}}

Cuts(lay, t) ==
    LET cuts[k \in 0..Len(lay)] ==
            IF k = 0 THEN {Start}
            ELSE UNION {Longer(lay, t, r, k) : r \in cuts[k - 1]}
    IN  cuts

Readings(lay, t) ==
    {r.text : r \in {c \in Cuts(lay, t)[Len(lay)] : c.end = Len(t)}}

Expected ==
    UNION {{[tag |-> tags[x], text |-> r] : r \in {q \in Readings(layout, tags[x]) : Allowed(q)}} :
              x \in 1..(pos - 1)}

Kept == {versions[k] : k \in DOMAIN versions}

(* No literal begins with a digit: then a token ends before its first mark.  *)
Plain == \A k \in DOMAIN layout : Literal(layout[k]) => Head(layout[k].literal) \notin Digit

(* After any number of tags the versions kept are those whose literals line  *)
(* up exactly and whose components satisfy the predicates (docs/port.md),    *)
(* read as they stand in the tag.  A literal that begins with a digit may    *)
(* hide a tag from the scan, but never lets a wrong one in.                  *)
ParsedExact == /\ Kept \subseteq Expected
               /\ Plain => Kept = Expected

(* The result is the newest `last` versions kept, newest first: nothing left *)
(* out is newer than anything returned.  graph.Build gives the floating tag  *)
(* to the first one.                                                         *)
CalverExact ==
    done =>
       /\ \A x, y \in DOMAIN out : x < y => /\ out[x] # out[y]
                                            /\ ~Newer(versions[out[y]], versions[out[x]])
       /\ \A k \in Left, x \in DOMAIN out : ~Newer(versions[k], versions[out[x]])
       /\ Cardinality(Left) = IF last > 0 /\ last < Len(versions)
                              THEN Len(versions) - last ELSE 0
-----------------------------------------------------------------------------
(* The inductive invariant behind the properties above.  parse is at a cut   *)
(* of the tag up to the segment it reads next.                               *)
Here == [end |-> i, text |-> cv]
OnACut == Reading => Here \in Cuts(layout, tag)[si - 1]

(* The versions returned so far come first, each once.                       *)
Sorted ==
    /\ Reading => out = << >>
    /\ \A x, y \in DOMAIN out : x < y => /\ out[x] # out[y]
                                         /\ ~Newer(versions[out[y]], versions[out[x]])
    /\ \A k \in Left, x \in DOMAIN out : ~Newer(versions[k], versions[out[x]])
    /\ last > 0 => Len(out) <= last
    /\ done => ~Reading /\ (Full \/ Left = {})

CalverInv == TypeOK /\ OnACut /\ Sorted
=============================================================================
