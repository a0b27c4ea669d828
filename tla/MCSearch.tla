----------------------------- MODULE MCSearch ------------------------------
\* Search for TLC: two rows in the project, a long and a short one, and one in
\* the global database with the content of the short one.
EXTENDS Search, TLC

CONSTANTS p1, p2, g1, P, G

MCHome  == [r \in {p1, p2, g1} |-> IF r = g1 THEN G ELSE P]
MCHash  == [r \in {p1, p2, g1} |-> IF r = p1 THEN 1 ELSE 2]
MCRequest ==
    LET ask == [scope |-> "project", filter |-> FALSE, channels |-> Channel,
                expand |-> FALSE, rerank |-> FALSE]
    IN  {[ask EXCEPT !.rerank = TRUE], [ask EXCEPT !.filter = TRUE],
         [ask EXCEPT !.expand = TRUE, !.channels = {"bm25", "vector"}],
         [ask EXCEPT !.scope = "global", !.channels = {"bm25"}]}
MCBonus == [r \in {p1, p2, g1} |-> 0]
=============================================================================
