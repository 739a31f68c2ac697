---------------------------- MODULE MCGitHistory ----------------------------
\* A commit with two children that are merged: 1 <- {2, 3} <- 4
EXTENDS GitHistory

Parents == <<{}, {1}, {1}, {2, 3}>>
MCCommits == DOMAIN Parents
MCAncestors == LET reach[c \in MCCommits] == {c} \cup UNION {reach[d] : d \in Parents[c]} IN reach
=============================================================================
