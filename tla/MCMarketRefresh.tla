---------------------------- MODULE MCMarketRefresh ----------------------------
(* Securities, histories and requirements for the run of MarketRefresh. *)
EXTENDS MarketRefresh, TLC
CONSTANTS c1, c2, s1, s2, s3
CompanyOf == (s1 :> c1) @@ (s2 :> c1) @@ (s3 :> c2)
TickerOf == (s1 :> 1) @@ (s2 :> 2) @@ (s3 :> 2)
Reports == [c \in {c1, c2} |-> [annual |-> 3, coverage |-> 8]]
Bar(close, volume) == [close |-> close, adjusted |-> None, volume |-> volume]
\* Three sessions; two of them count for the volume.  The first history has too
\* many sessions without a bar; the second, with enough volume, may have: there is
\* no calendar to tell; of the third the latest bars have no volume.
Sparse == [start |-> 0, calendar |-> TRUE, bars |-> <<NoBar, NoBar, Bar(1, 9)>>]
Foreign == [start |-> 0, calendar |-> FALSE, bars |-> <<NoBar, Bar(1, 2), Bar(2, 2)>>]
Silent == [start |-> 0, calendar |-> TRUE, bars |-> <<Bar(1, 2), Bar(1, 0), Bar(1, 0)>>]
Listings == {Sparse, Foreign, Silent}
================================================================================
