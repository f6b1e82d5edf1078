--------------------------- MODULE MCFeatureRegistry ---------------------------
(* Configurations for the run of FeatureRegistry. *)
EXTENDS FeatureRegistry
CONSTANTS r1, r2
Feature(version, content) == [version |-> version, content |-> content]
FeatureSet(version, list) == [version |-> version, members |-> list]
F1 == Feature("v1", "a")
F2 == Feature("v2", "b")
First == [features |-> <<F1, F1>>,
          sets |-> <<FeatureSet("s1", <<2, 1>>), FeatureSet("s3", <<2>>)>>]
\* A feature has a new version, the set it belongs to has not.
Bumped == [features |-> <<F2, F1>>, sets |-> <<FeatureSet("s1", <<2, 1>>), Absent>>]
\* Its second set is not the one of that version above; its first is in Third.
Torn == [features |-> <<F1, F1>>,
         sets |-> <<FeatureSet("s4", <<1>>), FeatureSet("s3", <<1, 2>>)>>]
Third == [features |-> <<F1, Absent>>, sets |-> <<FeatureSet("s4", <<1>>), Absent>>]
\* A feature edited without a new version, and two sets of one version.
Clash == [features |-> <<F1, Feature("v1", "b")>>,
          sets |-> <<FeatureSet("s5", <<1>>), FeatureSet("s5", <<2>>)>>]
Releases == {First, Bumped, Torn, Third, Clash}
================================================================================
