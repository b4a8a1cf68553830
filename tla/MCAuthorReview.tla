--------------------------- MODULE MCAuthorReview ---------------------------
EXTENDS AuthorReview

\* Each agent writes one child and could review the other.
MCAuthors == <<"ann", "bob">>
MCReviewers == <<"bob", "ann">>
MCByteSum == [r \in Requests |-> IF r = "c1" THEN 1 ELSE 0]

Setup(rounds, children, revisable, others, more, troubles) ==
    [rounds |-> rounds, decompositions |-> {children}, revisable |-> revisable,
     others |-> others, extras |-> more, faults |-> troubles]

\* One child revised once, under answers that repeat, differ or cannot be read and
\* under faults; two children, one of them sent back, under a fault; and the same
\* with room for a revision.
MCSetups ==
    {Setup(0, <<"c1">>, {"c1"}, {"y"}, 1, 1),
     Setup(1, <<"c1">>, {"c1"}, {"y", Unreadable}, 1, 0),
     Setup(1, <<"c1">>, {"c1"}, {}, 0, 2),
     Setup(0, <<"c1", "c2">>, {"c1"}, {}, 0, 1),
     Setup(1, <<"c1", "c2">>, {"c1"}, {}, 0, 0)}

\* Both children are sent back in the only round there is.
MCBothExhausted == {Setup(0, <<"c1", "c2">>, {"c1", "c2"}, {}, 0, 0)}
=============================================================================
