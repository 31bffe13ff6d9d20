------------------------------- MODULE MCExecutors -------------------------------
(* An architecture story and a feature, both with acceptance criteria; a       *)
(* grader that contradicts itself either way, and one that grades nothing.    *)
EXTENDS Executors

CONSTANTS arch, feature

MCGraders ==
  { [verdicts |-> {"MET", "UNCERTAIN"}, accept |-> FALSE],
    [verdicts |-> {"MET", "UNMET"}, accept |-> TRUE],
    [verdicts |-> {}, accept |-> FALSE] }
=============================================================================
