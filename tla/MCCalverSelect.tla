---------------------------- MODULE MCCalverSelect ----------------------------
(* The layouts of the docs and tests, adjacent tokens, a literal that begins *)
(* with a digit, a layout without a token; listings of up to two tags in any *)
(* order, and longer ones with equal versions.                               *)
EXTENDS CalverSelect

CONSTANTS dot, dash, word     \* characters

MCMarks == {dot, dash, word}

Lit(cs) == [literal |-> cs, token |-> NoToken]
Tok(name, width, strict) == [literal |-> << >>, token |-> Token(name, width, strict)]

YYYY == Tok("year", 4, TRUE)
YY == Tok("year", 2, FALSE)
MM == Tok("month", 2, FALSE)
M0 == Tok("month", 2, TRUE)
D0 == Tok("day", 2, TRUE)
MICRO == Tok("micro", 0, FALSE)
Dot == Lit(<< dot >>)

MCLayouts == {
    << YY, Dot, M0 >>,
    << YYYY, Dot, M0, Dot, D0 >>,
    << YY, Dot, MM, Dot, MICRO >>,
    << YY, M0, Lit(<< dash >>), MICRO >>,
    << Lit(<< word, dash >>), YY, MM >>,
    << YY, Lit(<< 0, dot >>), MICRO >>,
    << YY, Lit(<< 1 >>), MICRO >>,
    << Lit(<< word >>) >>
}

SampleTags == {
    << 2, 4, dot, 0, 4 >>, << 2, 4, dot, 4 >>, << 2, 4, dot, 1, 0 >>,
    << 2, 0, 2, 4, dot, 0, 4 >>, << 2, 4, dot, 0, 4, dot, 1 >>,
    << 2, 4, dot, 4, dot, 0, 1 >>, << 2, 4, dash, 0, 4 >>,
    << 2, 0, 2, 4, dot, 0, 1, dot, 0, 9 >>, << 2, 3, 1, 2, dash, 7 >>,
    << 2, 4, 0, 4, dash, 1, 2, 3, 4, 5 >>, << word, dash, 2, 4, 4 >>,
    << word, dash, 2, 4 >>, << word >>, << 2, 1, 1, 3 >>, << 2, 1 >>, << >>
}

LongListings == {
    << << 2, 2, dot, 0, 4 >>, << 2, 4, dot, 0, 4 >>, << 2, 3, dot, 1, 0 >>,
       << 2, 0, 2, 4, dot, 0, 4 >>, << 0, 2, 4, dot, 0, 4 >> >>,
    << << 2, 4, dot, 4, dot, 1 >>, << 2, 4, dot, 0, 4, dot, 1 >>,
       << 2, 4, dot, 0, 4, dot, 2 >>, << 2, 3, dot, 4, dot, 9 >> >>
}

MCTag == SampleTags \cup UNION {{l[k] : k \in DOMAIN l} : l \in LongListings}
MCListings == UNION {[1..n -> SampleTags] : n \in 0..2} \cup LongListings

Any == [in |-> {}, mod |-> << >>]
NoFilter == [c \in Names |-> Any]

(* Ubuntu LTS; a component that not every layout has; a negative divisor.    *)
MCFilters == {
    NoFilter,
    [NoFilter EXCEPT !["year"] = [in |-> {}, mod |-> << 2, 0 >>],
                     !["month"] = [in |-> {4}, mod |-> << >>]],
    [NoFilter EXCEPT !["micro"] = [in |-> {1, 2, 9}, mod |-> << -2, 1 >>]]
}

MCLasts == {-1, 0, 1, 2}
=============================================================================
