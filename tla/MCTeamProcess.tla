----------------------------- MODULE MCTeamProcess -------------------------------
(* Two delivery agents, one of which also holds the poker, with              *)
(* cadences of a tick or two.                                                *)
EXTENDS TeamProcess, TLC

CONSTANTS architect, test

MCSchedule == [a \in Agents |->
  <<[cadence |-> 1, words |-> {"check", "board", "story"}]>>
  \o IF a = test THEN <<[cadence |-> 2, words |-> {"poker", "refinement"}]>> ELSE <<>>]

MCBackoffs == <<1>>
=============================================================================
