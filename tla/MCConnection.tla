---------------------------- MODULE MCConnection ----------------------------
EXTENDS Connection

\* The four responses (two paths, kept or closed) have different lengths.
MCPathLen == [line \in Lines |-> IF line = "short" THEN 1 ELSE 3]

==============================================================================
