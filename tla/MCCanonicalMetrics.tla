--------------------------- MODULE MCCanonicalMetrics ---------------------------
(* Derivations for the runs of CanonicalMetrics. *)
EXTENDS CanonicalMetrics

Fact(filed, concept, form, fiscal_period, days, no) ==
    [filed |-> filed,
     source |-> [concept |-> concept, form |-> form, fiscal_period |-> fiscal_period,
                 days |-> days, no |-> no]]

Annual == Fact(1, 2, "10-K", "FY", 364, 1)

\* Two annual figures with the same end and different starts, as a company that
\* moves the end of its fiscal year reports them.
TwoStarts == {{Annual, Fact(1, 2, "10-K", "FY", 334, 2)}}

\* A tie; a filing with an amendment that reports a preferred concept; a preferred
\* concept of the first filing, which a larger registry finds, together with the
\* next filing; a period that is not supported.
VariousDerivations ==
    TwoStarts \cup
    {{Annual, Fact(1, 2, "10-K", "FY", 364, 4)},
     {Fact(2, 1, "10-K/A", "FY", 364, 3), Fact(2, 2, "10-K", "FY", 364, 6)},
     {Fact(1, 1, "10-K", "FY", 364, 7), Fact(2, 2, "10-K", "FY", 364, 6)},
     {Fact(2, 2, "10-K", "Q4", 91, 5)}}
================================================================================
