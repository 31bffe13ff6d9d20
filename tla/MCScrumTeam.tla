------------------------------- MODULE MCScrumTeam -------------------------------
(* Small teams for TLC: one to three stories, one or two agents.             *)
(* By default the agents are architect and architect#1.                      *)
EXTENDS ScrumTeam, TLC

CONSTANTS s1, s2, s3, a1, a2

MCTypeOf == [s \in Stories |-> "feature"]
MCRoleOf == [a \in Actors |-> "architect"]
MCOneComponent == [s \in Stories |-> "core"]
MCTwoComponents == [s \in Stories |-> IF s = s1 THEN "core" ELSE "cli"]
MCFiles == [s \in Stories |-> {}]
MCNoDependencies == [s \in Stories |-> {}]

(* A mixed team: an architect and a tester.  The test story depends on the    *)
(* feature it tests, and shares a file with the architecture story.           *)
MCMixedTypes == [s \in Stories |->
  CASE s = s1 -> "feature" [] s = s2 -> "architecture" [] OTHER -> "test"]
MCMixedRoles == [a \in Actors |-> IF a = a1 THEN "architect" ELSE "test"]
MCMixedComponents == [s \in Stories |->
  CASE s = s1 -> "core" [] s = s2 -> "design" [] OTHER -> "tests"]
MCMixedFiles == [s \in Stories |-> IF s = s1 THEN {"core.py"} ELSE {"api.py"}]
MCMixedDependencies == [s \in Stories |-> IF s = s3 THEN {s1} ELSE {}]

(* Actors of one role, and stories of one type and component, are            *)
(* interchangeable.                                                          *)
TeamSymmetry == Permutations(Actors) \cup Permutations(Stories)
=============================================================================
