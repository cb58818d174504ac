----------------------------- MODULE MCConvert -----------------------------
\* Instance of Convert: two uploads that fit the admission gate one at a time, one of
\* them under the job id of a render of another project; an archive of two addresses
\* (or a task for each, or a site of two pages).
EXTENDS Convert
CONSTANTS u1, u2, r1, b1, p1, p2, j1
MCJobIdOf == [c \in {u1, u2, r1} |-> IF c = u2 THEN None ELSE j1]
MCProjectOf == [c \in {u1, u2, r1} |-> IF c = r1 THEN "p2" ELSE "p1"]
MCSizeOf == [c \in {u1, u2} |-> IF c = u1 THEN 2 ELSE 1]
MCPages == [b \in {b1} |-> <<p1, p2>>]
=============================================================================
