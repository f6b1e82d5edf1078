----------------------------- MODULE MCSecArchives -----------------------------
(* Archives for the runs of SecArchives. *)
EXTENDS SecArchives

CONSTANTS c1, c2

\* The first company changes its code and takes it back, the second appears
\* later and is then reported without a code.
Changes == <<
    [c \in Companies |-> IF c = c1 THEN "3571" ELSE "absent"],
    [c \in Companies |-> IF c = c1 THEN "7372" ELSE "2834"],
    [c \in Companies |-> IF c = c1 THEN "3571" ELSE "blank"] >>

\* The first company ceases to be an operating one with the last archive, the
\* second moves to a supported exchange.
Moves == <<
    [c \in Companies |-> IF c = c1 THEN {"Nasdaq"} ELSE {}],
    [c \in Companies |-> IF c = c1 THEN {"Nasdaq"} ELSE {"OTC"}],
    [c \in Companies |-> {"Nasdaq"}] >>
EntityTypes == <<{c1}, {c1, c2}, {c2}>>

\* The configuration the tests supply, and the one that is committed.
TestConfig == [key \in {"exchanges"} |-> {"Nasdaq"}]
CommittedConfig == [key \in {"supported_exchanges"} |-> {"Nasdaq"}]

\* The catalog's archive is published twice more, the other one once.
Publications == [a \in Assets |-> IF a = "catalog" THEN 3 ELSE 2]
================================================================================
